---- MODULE Spec2Model ----
(***************************************************************************)
(* Lakebase training dashboard: the transactional executor and the         *)
(* trigger-driven audit trail (src/dash_app.py, src/setup_lakebase_tables  *)
(* .py) and the OAuth token cache with its connection pool                 *)
(* (src/dash_app.py).                                                      *)
(*                                                                         *)
(* Two specifications share the module.  Spec runs the dashboard's         *)
(* callbacks, one at a time, against the storage engine.  SpecToken runs   *)
(* concurrent callers of get_connection() against a clock.                 *)
(***************************************************************************)
EXTENDS Integers, Sequences, FiniteSets, TLC

VARIABLES
    \* ---- storage engine (setup_lakebase_tables.py) ----
    db,          \* the durable state: tables, audit_log, sequences
    tx,          \* the open transaction's working state, or NoTx
    installed,   \* the tables that carry an audit trigger
    rolledBack,  \* history: <<table, id>> of rows inserted by a rolled-back transaction
    \* ---- one LakebaseConnection inside a callback (dash_app.py) ----
    pc,          \* the callback's position
    connection,  \* self.connection: "None" or "conn"
    cursor,      \* self.cursor: "None" or "cursor"
    loc,         \* the callback's local variables
    last,        \* what the latest execute_query call did
    finished,    \* the callback whose with-block ended last, with its outcome
    ops,         \* callbacks started so far
    held,        \* the connections and cursors opened and not closed, by callback number
    \* ---- token cache and pool (dash_app.py) ----
    now,                   \* time.time(), seconds
    postgres_password,     \* the cached token: NoToken or the token's issue time
    last_password_refresh, \* the module global
    connection_pool,       \* the module global: NoPool or a pool id
    pools,                 \* pool id -> [token, closed]
    tpc,                   \* thread -> position in get_connection()
    tloc,                  \* thread -> locals and per-call history
    lastOpenAge,           \* age of the credential at the latest physical connection open
    \* ---- endpoint resolution (setup_lakebase_tables.py, setup_lakebase_project.py) ----
    rs,          \* the latest run of a resolver: its inputs, its calls, its outcome
    \* ---- concurrent sessions on audit_log and the audit feed (dash_app.py) ----
    au,          \* clock, audit_id sequence, sessions, committed records, feed
    \* ---- bulk import (dash_app.py) ----
    imp,         \* the uploaded rows, the loop's position, its counters
    \* ---- a repeated run of setup_database (setup_lakebase_tables.py) ----
    su,          \* the run's position, what it found at its start, how it ended
    \* ---- deploy_and_setup.py ----
    dp,          \* main's position, the script and its chunks, the steps taken
    \* ---- project and branch creation (setup_lakebase_project.py) ----
    pj           \* the service's projects and branches, the latest call and the one before

dbVars  == <<db, tx, installed, rolledBack, pc, connection, cursor, loc, last,
             finished, ops, held>>
tokVars == <<now, postgres_password, last_password_refresh, connection_pool,
             pools, tpc, tloc, lastOpenAge>>
extVars == <<rs, au, imp, su, dp, pj>>
vars    == <<dbVars, tokVars, extVars>>

(***************************************************************************)
(* Bounds of the model.                                                    *)
(***************************************************************************)
MaxId  == 3    \* values a SERIAL sequence of a monitored table may reach
MaxOps == 3    \* callbacks run in one behaviour
NThreads == 2  \* concurrent Dash callbacks inside get_connection()
MaxPools == 3  \* connection pools created in one behaviour
MaxNow == 3900 \* the clock stops here
MaxAudit == 6  \* audit_id values a forged INSERT INTO audit_log may reach
NSessions == 2 \* callbacks holding a connection at the same time
MaxAuditId == 3 \* audit records the concurrent sessions write
MaxClock == 1  \* readings of the clock the concurrent sessions see

(***************************************************************************)
(* The schema (setup_lakebase_tables.py, lines 123-196).                   *)
(*                                                                         *)
(* A row is [id, ref, ref2, val, qty]:                                     *)
(*   users        id = user_id,       val = email (UNIQUE)                 *)
(*   products     id = product_id,    val = price                          *)
(*   orders       id = order_id,      ref = user_id, val = total_amount    *)
(*                                    (0 is NULL)                          *)
(*   order_items  id = order_item_id, ref = order_id, ref2 = product_id,   *)
(*                val = unit_price,   qty = quantity                       *)
(***************************************************************************)
Tables == {"users", "products", "orders", "order_items"}

Vals == {1, 2}

Null == {}
Some(x) == {x}

KeyCol(t) ==
    CASE t = "users" -> "user_id"
      [] t = "products" -> "product_id"
      [] t = "orders" -> "order_id"
      [] t = "order_items" -> "order_item_id"

ValCol(t) ==
    CASE t = "users" -> "email"
      [] t = "products" -> "price"
      [] t = "orders" -> "total_amount"
      [] t = "order_items" -> "unit_price"

\* row_to_json(r)::jsonb: the object of the row's columns, the generated
\* column order_items.subtotal = quantity * unit_price included.
row_to_json(t, r) ==
    {<<KeyCol(t), r.id>>, <<ValCol(t), r.val>>}
    \cup (IF t = "orders" THEN {<<"user_id", r.ref>>} ELSE {})
    \cup (IF t = "order_items"
          THEN {<<"order_id", r.ref>>, <<"product_id", r.ref2>>,
                <<"quantity", r.qty>>, <<"subtotal", r.qty * r.val>>}
          ELSE {})

\* The value a JSON object holds under a key.
JsonGet(j, k) == (CHOOSE p \in j : p[1] = k)[2]

Ids(e, t) == {r.id : r \in e.tab[t]}

RowOf(e, t, i) == CHOOSE r \in e.tab[t] : r.id = i

MinOf(S) == CHOOSE x \in S : \A y \in S : x <= y

RECURSIVE SumOf(_)
SumOf(S) == IF S = {} THEN 0
            ELSE LET x == CHOOSE y \in S : TRUE IN x[2] + SumOf(S \ {x})

\* SELECT SUM(subtotal) FROM order_items WHERE order_id = o  (0 is NULL)
SumSubtotal(e, o) ==
    SumOf({<<r.id, r.qty * r.val>> : r \in {x \in e.tab["order_items"] : x.ref = o}})

(***************************************************************************)
(* The capture triggers (setup_lakebase_tables.py, lines 219-332).         *)
(***************************************************************************)
NextAuditId(e) == e.seq["audit_log"] + 1

\* audit_fn with the UPDATE branch writing row_to_json(NEW) into old_data.
audit_fn_UpdateOldIsNew(t, e, TG_OP, OLDROW, NEWROW) ==
    LET aid == NextAuditId(e)
        rec == [audit_id |-> aid, table_name |-> t, operation |-> TG_OP,
                record_id |-> IF TG_OP = "DELETE" THEN OLDROW.id ELSE NEWROW.id,
                old_data |-> IF TG_OP = "INSERT" THEN Null
                             ELSE IF TG_OP = "UPDATE" THEN Some(row_to_json(t, NEWROW))
                             ELSE Some(row_to_json(t, OLDROW)),
                new_data |-> IF TG_OP = "DELETE" THEN Null
                             ELSE Some(row_to_json(t, NEWROW))]
    IN [e EXCEPT !.audit = Append(@, rec), !.seq["audit_log"] = aid]

\* The body shared by the four trigger functions.
audit_fn(t, e, TG_OP, OLDROW, NEWROW) ==
    LET aid == NextAuditId(e)
        rec ==
          IF TG_OP = "INSERT" THEN
              [audit_id |-> aid, table_name |-> t, operation |-> "INSERT",
               record_id |-> NEWROW.id, old_data |-> Null,
               new_data |-> Some(row_to_json(t, NEWROW))]
          ELSE IF TG_OP = "UPDATE" THEN
              [audit_id |-> aid, table_name |-> t, operation |-> "UPDATE",
               record_id |-> NEWROW.id, old_data |-> Some(row_to_json(t, OLDROW)),
               new_data |-> Some(row_to_json(t, NEWROW))]
          ELSE
              [audit_id |-> aid, table_name |-> t, operation |-> "DELETE",
               record_id |-> OLDROW.id, old_data |-> Some(row_to_json(t, OLDROW)),
               new_data |-> Null]
    IN [e EXCEPT !.audit = Append(@, rec), !.seq["audit_log"] = aid]

audit_products(e, TG_OP, OLDROW, NEWROW) == audit_fn("products", e, TG_OP, OLDROW, NEWROW)

audit_users(e, TG_OP, OLDROW, NEWROW) == audit_fn("users", e, TG_OP, OLDROW, NEWROW)

audit_orders(e, TG_OP, OLDROW, NEWROW) == audit_fn("orders", e, TG_OP, OLDROW, NEWROW)

audit_order_items(e, TG_OP, OLDROW, NEWROW) == audit_fn("order_items", e, TG_OP, OLDROW, NEWROW)

\* FireTrigger with the triggers created AFTER INSERT OR UPDATE only.
FireTrigger_NoDelete(e, t, TG_OP, OLDROW, NEWROW) ==
    IF t \notin installed \/ TG_OP = "DELETE" THEN e
    ELSE audit_fn(t, e, TG_OP, OLDROW, NEWROW)

\* CREATE TRIGGER trg_audit_<t> AFTER INSERT OR UPDATE OR DELETE ON <t>
\* FOR EACH ROW EXECUTE FUNCTION audit_<t>(): runs inside the statement's
\* transaction, once for each row the statement touched.
FireTrigger(e, t, TG_OP, OLDROW, NEWROW) ==
    IF t \notin installed THEN e
    ELSE CASE t = "products" -> audit_products(e, TG_OP, OLDROW, NEWROW)
           [] t = "users" -> audit_users(e, TG_OP, OLDROW, NEWROW)
           [] t = "orders" -> audit_orders(e, TG_OP, OLDROW, NEWROW)
           [] t = "order_items" -> audit_order_items(e, TG_OP, OLDROW, NEWROW)

(***************************************************************************)
(* Row mutations of the storage engine.  Each records the mutation in      *)
(* e.muts (history, written by the engine, not by the trigger) and then    *)
(* fires the table's row trigger.                                          *)
(***************************************************************************)
NoRowRec == [id |-> 0, ref |-> 0, ref2 |-> 0, val |-> 0, qty |-> 0]

Mut(t, op, old, new) ==
    [t |-> t, op |-> op, id |-> IF op = "DELETE" THEN old.id ELSE new.id,
     old |-> IF op = "INSERT" THEN Null ELSE Some(old),
     new |-> IF op = "DELETE" THEN Null ELSE Some(new)]

RowInsert(e, t, r) ==
    FireTrigger([e EXCEPT !.tab[t] = @ \cup {r},
                          !.muts = Append(@, Mut(t, "INSERT", NoRowRec, r))],
                t, "INSERT", NoRowRec, r)

RowUpdate(e, t, old, new) ==
    FireTrigger([e EXCEPT !.tab[t] = (@ \ {old}) \cup {new},
                          !.muts = Append(@, Mut(t, "UPDATE", old, new))],
                t, "UPDATE", old, new)

RowDelete(e, t, old) ==
    FireTrigger([e EXCEPT !.tab[t] = @ \ {old},
                          !.muts = Append(@, Mut(t, "DELETE", old, NoRowRec))],
                t, "DELETE", old, NoRowRec)

\* The constraints of the schema a new or changed row must meet.
CheckOk(t, r) == t = "order_items" => r.qty > 0

UniqueConflict(e, t, r) ==
    t = "users" /\ \E x \in e.tab[t] : x.id # r.id /\ x.val = r.val

ForeignKeysOk(e, t, r) ==
    CASE t = "orders" -> r.ref \in Ids(e, "users")
      [] t = "order_items" -> r.ref \in Ids(e, "orders") /\ r.ref2 \in Ids(e, "products")
      [] OTHER -> TRUE

Fail(e) == [ok |-> FALSE, e |-> e, n |-> 0]

\* INSERT INTO t VALUES rows [ON CONFLICT DO NOTHING].  A SERIAL value is
\* drawn for every row, kept or not.  n counts the rows inserted.
RECURSIVE InsertRows(_, _, _, _, _)
InsertRows(e, t, rows, onconflict, n) ==
    IF rows = <<>> THEN [ok |-> TRUE, e |-> e, n |-> n]
    ELSE LET id == e.seq[t] + 1
             r  == [Head(rows) EXCEPT !.id = id]
             e1 == [e EXCEPT !.seq[t] = id]
         IN IF ~CheckOk(t, r) THEN Fail(e1)
            ELSE IF UniqueConflict(e1, t, r)
                 THEN IF onconflict
                      THEN InsertRows(e1, t, Tail(rows), onconflict, n)
                      ELSE Fail(e1)
            ELSE IF ~ForeignKeysOk(e1, t, r) THEN Fail(e1)
            ELSE InsertRows(RowInsert(e1, t, r), t, Tail(rows), onconflict, n + 1)

\* UPDATE t SET <value column> = v WHERE id IN ids
RECURSIVE UpdateRows(_, _, _, _, _)
UpdateRows(e, t, ids, v, n) ==
    IF ids = {} THEN [ok |-> TRUE, e |-> e, n |-> n]
    ELSE LET i   == MinOf(ids)
             old == RowOf(e, t, i)
             new == [old EXCEPT !.val = v]
         IN IF UniqueConflict(e, t, new) THEN Fail(e)
            ELSE UpdateRows(RowUpdate(e, t, old, new), t, ids \ {i}, v, n + 1)

\* The cascade removing the rows with no row-level DELETE behind it.
CascadeItems_NoRowTrigger(e, o) ==
    [e EXCEPT !.tab["order_items"] = {r \in @ : r.ref # o}]

\* order_items.order_id REFERENCES orders ON DELETE CASCADE: the rows of
\* order_items that go with a deleted order, each a row-level DELETE.
RECURSIVE CascadeItems(_, _)
CascadeItems(e, o) ==
    LET its == {r \in e.tab["order_items"] : r.ref = o}
    IN IF its = {} THEN e
       ELSE LET r == RowOf(e, "order_items", MinOf({x.id : x \in its}))
            IN CascadeItems(RowDelete(e, "order_items", r), o)

Referenced(e, t, i) ==
    CASE t = "users" -> \E o \in e.tab["orders"] : o.ref = i
      [] t = "products" -> \E it \in e.tab["order_items"] : it.ref2 = i
      [] OTHER -> FALSE

\* DELETE FROM t WHERE id IN ids
RECURSIVE DeleteRows(_, _, _, _)
DeleteRows(e, t, ids, n) ==
    IF ids = {} THEN [ok |-> TRUE, e |-> e, n |-> n]
    ELSE LET i   == MinOf(ids)
             old == RowOf(e, t, i)
         IN IF Referenced(e, t, i) THEN Fail(e)
            ELSE LET e1 == IF t = "orders" THEN CascadeItems(e, i) ELSE e
                 IN DeleteRows(RowDelete(e1, t, old), t, ids \ {i}, n + 1)


(***************************************************************************)
(* Statements.  head is the first keyword of the query text and returning  *)
(* says whether the text holds RETURNING: execute_query looks at nothing   *)
(* else.  kind, t, rows, onconflict, ids and val are what the engine runs. *)
(***************************************************************************)
Row(ref, ref2, val, qty) == [id |-> 0, ref |-> ref, ref2 |-> ref2, val |-> val, qty |-> qty]

Stmt(head, returning, kind, t, rows, onconflict, ids, val) ==
    [head |-> head, returning |-> returning, kind |-> kind, t |-> t,
     rows |-> rows, onconflict |-> onconflict, ids |-> ids, val |-> val]

SelectStmt(head, t) == Stmt(head, FALSE, "select", t, <<>>, FALSE, {}, 0)

InsertStmt(returning, t, rows, onconflict) ==
    Stmt("INSERT", returning, "insert", t, rows, onconflict, {}, 0)

UpdateStmt(returning, t, ids, val) ==
    Stmt("UPDATE", returning, "update", t, <<>>, FALSE, ids, val)

DeleteStmt(returning, t, ids) ==
    Stmt("DELETE", returning, "delete", t, <<>>, FALSE, ids, 0)

\* Statements on ecommerce.audit_log itself.  The table has no trigger and
\* no rule of its own (setup_lakebase_tables.py, lines 184-196): the engine
\* runs them like any other.  A forged record carries no row data.
AuditLogStmt(head, kind, ids) == Stmt(head, FALSE, kind, "audit_log", <<>>, FALSE, ids, 0)

AuditDelete(e, ids) ==
    LET Kept(a) == a.audit_id \notin ids
    IN [ok |-> TRUE, e |-> [e EXCEPT !.audit = SelectSeq(@, Kept)],
        n |-> Len(e.audit) - Len(SelectSeq(e.audit, Kept))]

AuditUpdate(e, ids) ==
    [ok |-> TRUE,
     e |-> [e EXCEPT !.audit = [i \in 1..Len(@) |->
                                   IF @[i].audit_id \in ids
                                   THEN [@[i] EXCEPT !.record_id = 0]
                                   ELSE @[i]]],
     n |-> Cardinality({i \in 1..Len(e.audit) : e.audit[i].audit_id \in ids})]

AuditInsert(e) ==
    LET aid == NextAuditId(e)
        rec == [audit_id |-> aid, table_name |-> "users", operation |-> "DELETE",
                record_id |-> 1, old_data |-> Null, new_data |-> Null]
    IN [ok |-> TRUE,
        e |-> [e EXCEPT !.audit = Append(@, rec), !.seq["audit_log"] = aid],
        n |-> 1]

\* The engine runs one statement on the working state e.
Engine(e, s) ==
    CASE s.kind = "audit_delete" -> AuditDelete(e, s.ids)
      [] s.kind = "audit_update" -> AuditUpdate(e, s.ids)
      [] s.kind = "audit_insert" -> AuditInsert(e)
      [] s.kind = "select" -> [ok |-> TRUE, e |-> e, n |-> Cardinality(e.tab[s.t])]
      [] s.kind = "insert" -> InsertRows(e, s.t, s.rows, s.onconflict, 0)
      [] s.kind = "update" -> UpdateRows(e, s.t, s.ids \cap Ids(e, s.t), s.val, 0)
      [] s.kind = "delete" -> DeleteRows(e, s.t, s.ids \cap Ids(e, s.t), 0)

(***************************************************************************)
(* Transactions.  psycopg opens a transaction with the first statement     *)
(* after a commit or rollback; tx is <<>> when none is open and <<e>>      *)
(* while one is.  Sequences are not transactional.                         *)
(***************************************************************************)
NoTx == <<>>

Begin == IF tx = NoTx THEN db ELSE tx[1]

\* self.connection.commit()
Commit(e) == e

\* Rollback with the audit rows written outside the transaction.
Rollback_KeepsAudit(e) == [db EXCEPT !.seq = e.seq, !.audit = e.audit]

\* self.connection.rollback(): the working state goes, the sequence values
\* drawn stay drawn.
Rollback(e) == [db EXCEPT !.seq = e.seq]

\* The rows a transaction inserted that the durable state does not hold.
InsertedBy(e) ==
    {<<t, i>> : t \in Tables, i \in 1..MaxId} \cap
    UNION {{<<t, i>> : i \in Ids(e, t) \ Ids(db, t)} : t \in Tables}

(***************************************************************************)
(* LakebaseConnection.execute_query (dash_app.py, lines 110-125).          *)
(*                                                                         *)
(* fault is what the transport does to this call: "none"; "error", the     *)
(* statement raises and the connection lives; "lost", the connection drops *)
(* under the statement, so that the rollback raises as well; "audit", the  *)
(* INSERT INTO audit_log of the trigger function raises.                   *)
(***************************************************************************)
Faults == {"none", "error", "lost", "audit"}

NoCall == [called |-> FALSE, head |-> "", kind |-> "", returning |-> FALSE,
           commits |-> 0, rollbacks |-> 0,
           error |-> "none", raised |-> "none",
           result |-> "none", n |-> 0, ids |-> {}, open |-> FALSE]

\* The classification by query text, lines 114-122.
ResultKind(s) ==
    IF s.head = "SELECT" THEN "rows"
    ELSE IF s.returning THEN "rows"
    ELSE "count"

CommitsAfter(s) == s.head # "SELECT"

\* The trigger function with an EXCEPTION WHEN OTHERS block around its
\* INSERT: the row mutations stand and their audit records are missing.
AuditWrite_Swallowed(e0, r, fault) ==
    IF fault = "audit" /\ Len(r.e.audit) > Len(e0.audit)
    THEN [r EXCEPT !.e.audit = e0.audit]
    ELSE r

\* The statement's outcome when the trigger function's INSERT INTO
\* audit_log raises (setup_lakebase_tables.py, lines 219-312: no function
\* has an EXCEPTION block, and the triggers are AFTER ... FOR EACH ROW): the
\* error leaves the function and aborts the statement that fired it.  A
\* statement that changes no row fires no trigger.  The failure is taken in
\* the statement's last firing.
AuditWrite(e0, r, fault) ==
    IF fault = "audit" /\ Len(r.e.audit) > Len(e0.audit)
    THEN [ok |-> FALSE, e |-> r.e, n |-> 0, audit |-> TRUE]
    ELSE r

AuditFailed(r) == "audit" \in DOMAIN r

\* What the try block (lines 113-122) raises, "none" when it returns.
TryError(s, fault, r) ==
    IF cursor = "None" THEN "AttributeError"
    ELSE IF connection = "broken" \/ fault = "lost" THEN "OperationalError"
    ELSE IF AuditFailed(r) THEN "AuditWriteFailed"
    ELSE IF fault = "error" \/ ~r.ok THEN "StatementError"
    ELSE "none"

\* What the except block (lines 123-125) leaves the caller with: the
\* error of self.connection.rollback() when that raises, else e.
Reraised(err, fault) ==
    IF connection = "None" THEN "AttributeError_rollback"
    ELSE IF connection = "broken" \/ fault = "lost" THEN "OperationalError_rollback"
    ELSE err

RollbackDone(fault) == connection = "conn" /\ fault # "lost"

execute_query(s, fault) ==
    LET e0  == Begin
        r   == IF cursor = "None" \/ connection # "conn" \/ fault \in {"error", "lost"}
               THEN Fail(e0) ELSE AuditWrite(e0, Engine(e0, s), fault)
        err == TryError(s, fault, r)
    IN IF err = "none"
       THEN /\ db' = IF CommitsAfter(s) THEN Commit(r.e) ELSE db
            /\ tx' = IF CommitsAfter(s) THEN NoTx ELSE <<r.e>>
            /\ last' = [called |-> TRUE, head |-> s.head, kind |-> s.kind,
                        returning |-> s.returning,
                        commits |-> IF CommitsAfter(s) THEN 1 ELSE 0,
                        rollbacks |-> 0, error |-> "none", raised |-> "none",
                        result |-> ResultKind(s), n |-> r.n,
                        ids |-> IF s.t \in Tables
                                THEN Ids(r.e, s.t) \ Ids(e0, s.t) ELSE {},
                        open |-> ~CommitsAfter(s)]
            /\ UNCHANGED <<rolledBack, connection>>
       ELSE /\ db' = IF connection = "None" THEN db ELSE Rollback(r.e)
            /\ tx' = NoTx
            /\ rolledBack' = rolledBack \cup InsertedBy(r.e)
            /\ connection' = IF connection = "conn" /\ fault = "lost"
                             THEN "broken" ELSE connection
            /\ last' = [called |-> TRUE, head |-> s.head, kind |-> s.kind,
                        returning |-> s.returning, commits |-> 0,
                        rollbacks |-> IF RollbackDone(fault) THEN 1 ELSE 0,
                        error |-> err, raised |-> Reraised(err, fault),
                        result |-> "none", n |-> 0, ids |-> {}, open |-> FALSE]


(***************************************************************************)
(* The callbacks of dash_app.py, each a with LakebaseConnection() block.   *)
(***************************************************************************)
Callbacks == {"add_product", "add_user", "create_order", "query"}

NoLoc == [cb |-> "none", customer_id |-> 0, order_id |-> 0, product_id |-> 0,
          price |-> 0, exc |-> "none", attempts |-> 0, waited |-> 0,
          opened |-> "none", entered |-> "none"]

\* LakebaseConnection.__enter__ and connect (lines 93-108): connect()
\* swallows what get_connection() or connection.cursor() raises and
\* __enter__ ignores its result.  c is "ok", "noconn" (get_connection
\* raised) or "nocursor" (connection.cursor raised).  connect() calls
\* get_connection() once (line 102) and never sleeps: loc.attempts and
\* loc.waited count the calls and the seconds waited between them;
\* loc.entered is how __enter__ ended, always by returning self (line 95).
ConnectOutcomes == {"ok", "noconn", "nocursor"}

connect(c) ==
    /\ connection' = IF c = "noconn" THEN "None" ELSE "conn"
    /\ cursor' = IF c = "ok" THEN "cursor" ELSE "None"
    /\ held' = [conns   |-> held.conns \cup (IF c = "noconn" THEN {} ELSE {ops + 1}),
                cursors |-> held.cursors \cup (IF c = "ok" THEN {ops + 1} ELSE {})]

Enter ==
    /\ pc = "idle"
    /\ ops < MaxOps
    /\ \E cb \in Callbacks, c \in ConnectOutcomes, u \in 1..MaxId :
         /\ connect(c)
         /\ loc' = [NoLoc EXCEPT !.cb = cb,
                                 !.customer_id = IF cb = "create_order" THEN u ELSE 0,
                                 !.attempts = 1,
                                 !.opened = c,
                                 !.entered = "returned"]
         /\ pc' = IF cb = "create_order" THEN "co_insert_order" ELSE cb
    /\ ops' = ops + 1
    /\ last' = NoCall
    /\ finished' = NoLoc
    /\ UNCHANGED <<db, tx, installed, rolledBack, tokVars, extVars>>

\* What follows an execute_query call inside the with block: an exception
\* leaves the block (and __exit__ closes), a return goes on to nxt.
After(nxt) == IF last'.raised # "none" THEN "exit" ELSE nxt

\* add_product, lines 1024-1043
AddProduct ==
    /\ pc = "add_product"
    /\ db.seq["products"] < MaxId
    /\ \E v \in Vals, f \in Faults :
         execute_query(InsertStmt(FALSE, "products", <<Row(0, 0, v, 0)>>, FALSE), f)
    /\ pc' = "exit"
    /\ loc' = [loc EXCEPT !.exc = last'.raised]
    /\ UNCHANGED <<installed, cursor, finished, ops, held, tokVars, extVars>>

\* add_user, lines 1055-1074
AddUser ==
    /\ pc = "add_user"
    /\ db.seq["users"] < MaxId
    /\ \E v \in Vals, f \in Faults :
         execute_query(InsertStmt(FALSE, "users", <<Row(0, 0, v, 0)>>, FALSE), f)
    /\ pc' = "exit"
    /\ loc' = [loc EXCEPT !.exc = last'.raised]
    /\ UNCHANGED <<installed, cursor, finished, ops, held, tokVars, extVars>>

\* create_order, lines 1119-1125: INSERT INTO orders ... RETURNING order_id
CreateOrderInsert ==
    /\ pc = "co_insert_order"
    /\ db.seq["orders"] < MaxId
    /\ \E f \in Faults :
         execute_query(InsertStmt(TRUE, "orders",
                                  <<Row(loc.customer_id, 0, 0, 0)>>, FALSE), f)
    /\ pc' = After("co_select_product")
    /\ loc' = [loc EXCEPT !.exc = last'.raised,
                          !.order_id = IF last'.raised = "none"
                                       THEN MinOf(last'.ids) ELSE 0]
    /\ UNCHANGED <<installed, cursor, finished, ops, held, tokVars, extVars>>

\* create_order, lines 1128-1132: SELECT product_id, price FROM products
\* LIMIT 1, any row of the table; "if products:" skips the rest when empty.
CreateOrderSelect ==
    /\ pc = "co_select_product"
    /\ \E f \in Faults : execute_query(SelectStmt("SELECT", "products"), f)
    /\ \E p \in (IF last'.raised = "none" /\ Begin.tab["products"] # {}
                 THEN Begin.tab["products"] ELSE {NoRowRec}) :
         /\ loc' = [loc EXCEPT !.exc = last'.raised,
                               !.product_id = p.id, !.price = p.val]
         /\ pc' = IF p.id = 0 THEN "exit" ELSE After("co_insert_item")
    /\ UNCHANGED <<installed, cursor, finished, ops, held, tokVars, extVars>>

\* create_order, lines 1135-1138: INSERT INTO order_items
CreateOrderItem ==
    /\ pc = "co_insert_item"
    /\ db.seq["order_items"] < MaxId
    /\ \E f \in Faults :
         execute_query(InsertStmt(FALSE, "order_items",
                                  <<Row(loc.order_id, loc.product_id, loc.price, 1)>>,
                                  FALSE), f)
    /\ pc' = After("co_update_total")
    /\ loc' = [loc EXCEPT !.exc = last'.raised]
    /\ UNCHANGED <<installed, cursor, finished, ops, held, tokVars, extVars>>

\* create_order, lines 1141-1147: UPDATE orders SET total_amount = (SELECT
\* SUM(subtotal) ...) WHERE order_id = %s
CreateOrderTotal ==
    /\ pc = "co_update_total"
    /\ \E f \in Faults :
         execute_query(UpdateStmt(FALSE, "orders", {loc.order_id},
                                  SumSubtotal(Begin, loc.order_id)), f)
    /\ pc' = "exit"
    /\ loc' = [loc EXCEPT !.exc = last'.raised]
    /\ UNCHANGED <<installed, cursor, finished, ops, held, tokVars, extVars>>

\* The statements the Query Builder is given here (it takes any text).
NonEmpty(S) == SUBSET S \ {{}}

QueryStmts ==
    {SelectStmt(h, t) : h \in {"SELECT", "WITH"}, t \in Tables}
    \cup {InsertStmt(FALSE, "users", <<Row(0, 0, v, 0), Row(0, 0, w, 0)>>, oc) :
            v \in Vals, w \in Vals, oc \in BOOLEAN}
    \cup {InsertStmt(FALSE, "order_items", <<Row(o, p, 1, q)>>, FALSE) :
            o \in 1..2, p \in 1..2, q \in {0, 2}}
    \cup UNION {{UpdateStmt(rt, t, ids, v) : ids \in NonEmpty(Ids(db, t)), v \in Vals} :
                  t \in Tables, rt \in BOOLEAN}
    \cup UNION {{DeleteStmt(rt, t, ids) : ids \in NonEmpty(Ids(db, t))} :
                  t \in Tables, rt \in BOOLEAN}

\* execute_query, the Query Builder's callback, lines 1424-1451
QueryBuilder ==
    /\ pc = "query"
    /\ \E s \in QueryStmts, f \in Faults :
         /\ s.kind = "insert" => db.seq[s.t] + Len(s.rows) <= MaxId
         /\ execute_query(s, f)
    /\ pc' = "exit"
    /\ loc' = [loc EXCEPT !.exc = last'.raised]
    /\ UNCHANGED <<installed, cursor, finished, ops, held, tokVars, extVars>>

\* The statements on the audit log the Query Builder is given here.
AuditLogStmts ==
    {AuditLogStmt("DELETE", "audit_delete", {i}) : i \in 1..db.seq["audit_log"]}
    \cup {AuditLogStmt("UPDATE", "audit_update", {i}) : i \in 1..db.seq["audit_log"]}
    \cup {AuditLogStmt("INSERT", "audit_insert", {})}

\* execute_query, the Query Builder's callback, lines 1424-1451, given a
\* statement on ecommerce.audit_log
QueryBuilderAudit ==
    /\ pc = "query"
    /\ \E s \in AuditLogStmts, f \in Faults :
         /\ s.kind = "audit_insert" => db.seq["audit_log"] < MaxAudit
         /\ execute_query(s, f)
    /\ pc' = "exit"
    /\ loc' = [loc EXCEPT !.exc = last'.raised]
    /\ UNCHANGED <<installed, cursor, finished, ops, held, tokVars, extVars>>

\* LakebaseConnection.close (lines 127-132): the cursor is closed when
\* self.cursor is set, the connection when self.connection is set, each
\* under its own test.  h is held, n the number of the callback closing.
close_CursorFirst(h, n) ==
    IF cursor # "None"
    THEN [conns   |-> IF connection # "None" THEN h.conns \ {n} ELSE h.conns,
          cursors |-> h.cursors \ {n}]
    ELSE h

close(h, n) ==
    [conns   |-> IF connection # "None" THEN h.conns \ {n} ELSE h.conns,
     cursors |-> IF cursor # "None" THEN h.cursors \ {n} ELSE h.cursors]

\* LakebaseConnection.__exit__ and close (lines 97-98, 127-132).  Closing
\* the connection ends a transaction left open; nothing of it is kept.
Exit ==
    /\ pc = "exit"
    /\ held' = close(held, ops)
    /\ tx' = NoTx
    /\ db' = IF tx = NoTx THEN db ELSE Rollback(tx[1])
    /\ rolledBack' = rolledBack \cup (IF tx = NoTx THEN {} ELSE InsertedBy(tx[1]))
    /\ connection' = "None"
    /\ cursor' = "None"
    /\ finished' = loc
    /\ loc' = NoLoc
    /\ pc' = "idle"
    /\ UNCHANGED <<installed, last, ops, tokVars, extVars>>

(***************************************************************************)
(* execute_bulk_import (dash_app.py, lines 1213-1250): one with-block, one *)
(* INSERT INTO ecommerce.products per row of the uploaded frame.           *)
(***************************************************************************)
MaxRows == 2   \* rows of an uploaded frame

\* The frames read back at line 1218.  A row of a frame: its price, and
\* whether float(row.get('price', 0)) and int(row.get('stock_quantity', 0))
\* (lines 1231-1232) return; they raise ValueError on a cell that is text
\* or empty.
Frames ==
    UNION {[1..n -> [price : Vals, convertible : BOOLEAN]] : n \in 0..MaxRows}

NoImp == [rows |-> <<>>, idx |-> 0, inserted |-> 0, errors |-> <<>>,
          attempted |-> <<>>, before |-> {}, feedback |-> "none"]

\* Lines 1235-1237: inserted += 1 after execute_query returned, else the
\* except clause appends "Row idx: ..." to errors.  raised is what the
\* try body raised, "none" when it raised nothing.
Tally_CountsAttempts(i, raised) ==
    [imp EXCEPT !.idx = i,
                !.inserted = imp.inserted + 1,
                !.errors = IF raised = "none" THEN imp.errors
                           ELSE Append(imp.errors, i)]

Tally(i, raised) ==
    [imp EXCEPT !.idx = i,
                !.inserted = IF raised = "none" THEN imp.inserted + 1
                             ELSE imp.inserted,
                !.errors = IF raised = "none" THEN imp.errors
                           ELSE Append(imp.errors, i)]

\* Lines 1217-1222: the frame is read back, the counters start at zero and
\* the with-block opens.  imp.before is what products holds at that time.
ImportEnter ==
    /\ pc = "idle"
    /\ ops < MaxOps
    /\ \E rows \in Frames, c \in ConnectOutcomes :
         /\ connect(c)
         /\ loc' = [NoLoc EXCEPT !.cb = "bulk_import", !.attempts = 1,
                                 !.opened = c, !.entered = "returned"]
         /\ imp' = [NoImp EXCEPT !.rows = rows, !.before = Ids(db, "products")]
    /\ pc' = "bulk_import"
    /\ ops' = ops + 1
    /\ last' = NoCall
    /\ finished' = NoLoc
    /\ UNCHANGED <<db, tx, installed, rolledBack, tokVars, rs, au, su, dp, pj>>

\* One turn of the loop (lines 1223-1237) on a row whose arguments cannot
\* be built: the ValueError is raised before execute_query is called.
ImportRowUnconvertible ==
    /\ pc = "bulk_import"
    /\ imp.idx < Len(imp.rows)
    /\ ~imp.rows[imp.idx + 1].convertible
    /\ imp' = Tally(imp.idx + 1, "ValueError")
    /\ UNCHANGED <<dbVars, tokVars, rs, au, su, dp, pj>>

\* One turn of the loop (lines 1223-1237) on a row whose arguments are
\* built: one execute_query call, which commits or rolls back and raises.
ImportRow ==
    /\ pc = "bulk_import"
    /\ imp.idx < Len(imp.rows)
    /\ imp.rows[imp.idx + 1].convertible
    /\ db.seq["products"] < MaxId
    /\ \E f \in Faults :
         execute_query(InsertStmt(FALSE, "products",
                                  <<Row(0, 0, imp.rows[imp.idx + 1].price, 0)>>,
                                  FALSE), f)
    /\ imp' = [Tally(imp.idx + 1, last'.raised)
                  EXCEPT !.attempted = Append(imp.attempted, imp.idx + 1)]
    /\ UNCHANGED <<installed, pc, cursor, loc, finished, ops, held, tokVars, rs, au, su, dp, pj>>

\* The loop is over (lines 1239-1248): the block ends and the feedback is
\* the warning when errors is not empty, else the success alert.
ImportDone ==
    /\ pc = "bulk_import"
    /\ imp.idx = Len(imp.rows)
    /\ imp' = [imp EXCEPT !.feedback = IF imp.errors # <<>> THEN "warning"
                                       ELSE "success"]
    /\ pc' = "exit"
    /\ UNCHANGED <<db, tx, installed, rolledBack, connection, cursor, loc, last,
                   finished, ops, held, tokVars, rs, au, su, dp, pj>>

(***************************************************************************)
(* setup_database() run again on a database it has set up before          *)
(* (setup_lakebase_tables.py, lines 314-425).  Its CREATE ... IF NOT       *)
(* EXISTS statements change nothing then; the trigger statements and the   *)
(* sample-data inserts, cut to one row a table, do.                        *)
(***************************************************************************)
MaxRuns == 2   \* repeated runs of setup_database

\* The list triggers (lines 316-325): four DROP TRIGGER IF EXISTS, then
\* four CREATE TRIGGER, in this order of tables.
triggers ==
    <<[verb |-> "DROP", t |-> "products"], [verb |-> "DROP", t |-> "users"],
      [verb |-> "DROP", t |-> "orders"], [verb |-> "DROP", t |-> "order_items"],
      [verb |-> "CREATE", t |-> "products"], [verb |-> "CREATE", t |-> "users"],
      [verb |-> "CREATE", t |-> "orders"], [verb |-> "CREATE", t |-> "order_items"]>>

SetupFaults == {"none", "error"}

NoSu == [pc |-> "idle", i |-> 0, runs |-> 0, returned |-> "none",
         users |-> 0, products |-> 0, audit |-> 0, warnings |-> 0]

\* setup_database is called: connection made, schema and tables found in
\* place (lines 90-312).  The row counts at that time are kept in su.
SetupBegin ==
    /\ su.pc = "idle"
    /\ su.runs < MaxRuns
    /\ su' = [NoSu EXCEPT !.pc = "triggers", !.runs = su.runs,
                          !.users = Cardinality(db.tab["users"]),
                          !.products = Cardinality(db.tab["products"]),
                          !.audit = Len(db.audit)]
    /\ UNCHANGED <<dbVars, tokVars, rs, au, imp, dp, pj>>

\* The triggers a statement of the list leaves when it is executed and
\* committed; CREATE TRIGGER of a trigger that exists is an error.
TriggerStmtFails(trig, f) ==
    f = "error" \/ (trig.verb = "CREATE" /\ trig.t \in installed)

\* One turn of the loop of lines 326-332: the statement is executed and
\* committed, or its error is printed as a warning and rolled back; the
\* loop goes on either way.
SetupTrigger ==
    /\ su.pc = "triggers"
    /\ su.i < Len(triggers)
    /\ \E f \in SetupFaults :
         LET trig == triggers[su.i + 1]
         IN /\ installed' = IF TriggerStmtFails(trig, f) THEN installed
                            ELSE IF trig.verb = "DROP" THEN installed \ {trig.t}
                            ELSE installed \cup {trig.t}
            /\ su' = [su EXCEPT !.i = su.i + 1,
                                !.warnings = IF TriggerStmtFails(trig, f)
                                             THEN su.warnings + 1 ELSE su.warnings,
                                !.pc = IF su.i + 1 = Len(triggers)
                                       THEN "users" ELSE "triggers"]
    /\ UNCHANGED <<db, tx, rolledBack, pc, connection, cursor, loc, last, finished,
                   ops, held, tokVars, rs, au, imp, dp, pj>>

\* A sample-data statement outside any try (lines 337-405): it commits, or
\* its error leaves setup_database and the process exits with 1.
SetupStep(r, f, nextpc) ==
    IF f = "none" /\ r.ok
    THEN /\ db' = Commit(r.e)
         /\ su' = [su EXCEPT !.pc = nextpc]
    ELSE /\ db' = Rollback(r.e)
         /\ su' = [su EXCEPT !.pc = "idle", !.runs = su.runs + 1,
                             !.returned = "raised"]

\* INSERT INTO ecommerce.users ... ON CONFLICT (email) DO NOTHING and its
\* commit (lines 338-347).
SetupUsers ==
    /\ su.pc = "users"
    /\ db.seq["users"] < MaxId
    /\ \E f \in SetupFaults :
         SetupStep(InsertRows(db, "users", <<Row(0, 0, 1, 0)>>, TRUE, 0), f, "products")
    /\ UNCHANGED <<tx, installed, rolledBack, pc, connection, cursor, loc, last,
                   finished, ops, held, tokVars, rs, au, imp, dp, pj>>

\* INSERT INTO ecommerce.products ... ON CONFLICT DO NOTHING and its commit
\* (lines 350-364).
SetupProducts ==
    /\ su.pc = "products"
    /\ db.seq["products"] < MaxId
    /\ \E f \in SetupFaults :
         SetupStep(InsertRows(db, "products", <<Row(0, 0, 2, 0)>>, TRUE, 0), f, "orders")
    /\ UNCHANGED <<tx, installed, rolledBack, pc, connection, cursor, loc, last,
                   finished, ops, held, tokVars, rs, au, imp, dp, pj>>

\* SELECT user_id ... LIMIT 1, then an order of that user and its item on
\* product 1, each committed (lines 366-386).
SetupOrders ==
    /\ su.pc = "orders"
    /\ db.seq["orders"] < MaxId
    /\ db.seq["order_items"] < MaxId
    /\ \E f \in SetupFaults, user_id \in Ids(db, "users") :
         LET o == InsertRows(db, "orders", <<Row(user_id, 0, 2, 0)>>, FALSE, 0)
             order_id == o.e.seq["orders"]
         IN SetupStep(IF o.ok
                      THEN InsertRows(o.e, "order_items",
                                      <<Row(order_id, 1, 2, 1)>>, FALSE, 0)
                      ELSE o, f, "verify")
    /\ UNCHANGED <<tx, installed, rolledBack, pc, connection, cursor, loc, last,
                   finished, ops, held, tokVars, rs, au, imp, dp, pj>>

\* The counts are read and printed, the connection is closed and
\* setup_database returns True (lines 407-425).
SetupReturn ==
    /\ su.pc = "verify"
    /\ su' = [su EXCEPT !.pc = "idle", !.runs = su.runs + 1, !.returned = "True"]
    /\ UNCHANGED <<dbVars, tokVars, rs, au, imp, dp, pj>>

(***************************************************************************)
(* deploy_and_setup.py: main (lines 190-225), get_oauth_token (24-34),     *)
(* setup_database (36-113), deploy_to_workspace (115-151) and              *)
(* create_or_update_app (153-188).                                         *)
(***************************************************************************)
MaxStmts == 2   \* SQL statements in setup_database.sql
MaxParts == 2   \* pieces of a statement's body that its inner semicolons separate

\* setup_database.sql as a sequence of tokens.  A statement is an optional
\* comment line, a body of one or more pieces of SQL with a semicolon
\* between two pieces (the body of a function between $$ has some), its
\* closing semicolon and a line break.  A token is a record of its type
\* ("comment", "text", "semi", "space"), its statement and its piece.
Scripts ==
    UNION {[1..n -> [commented : BOOLEAN, parts : 1..MaxParts]] : n \in 1..MaxStmts}

\* The statement as the database has to receive it: all its pieces and the
\* semicolons between them.
Body(k, shape) ==
    [i \in 1..(2 * shape.parts - 1) |->
        IF i % 2 = 1 THEN [type |-> "text", k |-> k, part |-> (i + 1) \div 2]
        ELSE [type |-> "semi", k |-> k, part |-> i \div 2]]

StatementText(k, shape) ==
    (IF shape.commented THEN <<[type |-> "comment", k |-> k, part |-> 0]>> ELSE <<>>)
        \o Body(k, shape)
        \o <<[type |-> "semi", k |-> k, part |-> shape.parts],
              [type |-> "space", k |-> k, part |-> 0]>>

\* f.read() (lines 59-60): the text of the statements from the k-th on.
RECURSIVE sql_script(_, _)
sql_script(script, k) ==
    IF k > Len(script) THEN <<>>
    ELSE StatementText(k, script[k]) \o sql_script(script, k + 1)

\* str.split(';') (line 65): the text is cut at every semicolon; cur is the
\* chunk being read.
RECURSIVE split(_, _)
split(text, cur) ==
    IF text = <<>> THEN <<cur>>
    ELSE IF Head(text).type = "semi" THEN <<cur>> \o split(Tail(text), <<>>)
    ELSE split(Tail(text), Append(cur, Head(text)))

\* str.strip() (line 67): white space is taken off both ends.
RECURSIVE strip(_)
strip(chunk) ==
    IF chunk = <<>> THEN <<>>
    ELSE IF Head(chunk).type = "space" THEN strip(Tail(chunk))
    ELSE IF chunk[Len(chunk)].type = "space"
         THEN strip(SubSeq(chunk, 1, Len(chunk) - 1))
    ELSE chunk

\* The test of line 68: stmt and not stmt.startswith('--').
Executed(stmt) == stmt # <<>> /\ stmt[1].type # "comment"

\* What the database makes of the text passed to cursor.execute: the
\* number of the statement of the script that this text is, comments and
\* white space aside, or 0 when it is no whole statement and the database
\* raises a syntax error.
RECURSIVE Sql(_)
Sql(stmt) ==
    IF stmt = <<>> THEN <<>>
    ELSE IF Head(stmt).type \in {"comment", "space"} THEN Sql(Tail(stmt))
    ELSE <<Head(stmt)>> \o Sql(Tail(stmt))

WholeStatement(script, stmt) ==
    IF \E k \in 1..Len(script) : Sql(stmt) = Body(k, script[k])
    THEN CHOOSE k \in 1..Len(script) : Sql(stmt) = Body(k, script[k])
    ELSE 0

NoDp == [pc |-> "start", steps |-> <<>>, token |-> "none", script |-> <<>>,
         statements |-> <<>>, i |-> 0, executed |-> <<>>, applied |-> <<>>,
         rollbacks |-> 0, looped |-> FALSE, setup |-> "none", get_rc |-> 0,
         app_url |-> "none", returned |-> "none"]

\* Step 1 of main (lines 195-200) and get_oauth_token (lines 24-34): the
\* token, or None when the SDK raises; main returns False on an empty or
\* missing token.
DeployToken ==
    /\ dp.pc = "start"
    /\ \E t \in {"token", "", "None"} :
         dp' = [dp EXCEPT !.steps = Append(dp.steps, "get_oauth_token"),
                          !.token = t,
                          !.pc = IF t = "token" THEN "setup" ELSE "done",
                          !.returned = IF t = "token" THEN "none" ELSE "False"]
    /\ UNCHANGED <<dbVars, tokVars, rs, au, imp, su, pj>>

\* Where main goes on after setup_database returned (lines 204-209).
AfterSetup(ok) == "upload"

\* setup_database up to the split (lines 54-65): psycopg.connect or the
\* open of setup_database.sql may raise, which the outer except turns into
\* return False (lines 111-113).
DeploySetup ==
    /\ dp.pc = "setup"
    /\ \E c \in {"ok", "connect_fails", "no_file"}, script \in Scripts :
         dp' = IF c = "ok"
               THEN [dp EXCEPT !.steps = Append(dp.steps, "setup_database"),
                               !.script = script,
                               !.statements = split(sql_script(script, 1), <<>>),
                               !.pc = "statements"]
               ELSE [dp EXCEPT !.steps = Append(dp.steps, "setup_database"),
                               !.setup = "False",
                               !.pc = AfterSetup(FALSE)]
    /\ UNCHANGED <<dbVars, tokVars, rs, au, imp, su, pj>>

\* One turn of the loop of lines 66-77: the chunk is stripped and, unless
\* it is empty or starts with '--', passed to cursor.execute and committed;
\* an error is rolled back and the loop goes on, unless the rollback
\* raises too, which ends setup_database with False.
DeployStatement ==
    /\ dp.pc = "statements"
    /\ dp.i < Len(dp.statements)
    /\ LET stmt == strip(dp.statements[dp.i + 1])
           k    == WholeStatement(dp.script, stmt)
       IN IF ~Executed(stmt)
          THEN dp' = [dp EXCEPT !.i = dp.i + 1]
          ELSE \E f \in {"none", "exists", "error", "lost"} :
                 dp' = IF f = "lost"
                       THEN [dp EXCEPT !.executed = Append(dp.executed, stmt),
                                       !.setup = "False",
                                       !.pc = AfterSetup(FALSE)]
                       ELSE IF f = "none" /\ k # 0
                       THEN [dp EXCEPT !.i = dp.i + 1,
                                       !.executed = Append(dp.executed, stmt),
                                       !.applied = Append(dp.applied, k)]
                       ELSE [dp EXCEPT !.i = dp.i + 1,
                                       !.executed = Append(dp.executed, stmt),
                                       !.rollbacks = dp.rollbacks + 1]
    /\ UNCHANGED <<dbVars, tokVars, rs, au, imp, su, pj>>

\* After the loop (lines 79-113): the counts and the triggers are read;
\* setup_database returns True, or False when one of the reads raises.
DeployVerify ==
    /\ dp.pc = "statements"
    /\ dp.i = Len(dp.statements)
    /\ \E ok \in BOOLEAN :
         dp' = [dp EXCEPT !.looped = TRUE,
                          !.setup = IF ok THEN "True" ELSE "False",
                          !.pc = AfterSetup(ok)]
    /\ UNCHANGED <<dbVars, tokVars, rs, au, imp, su, pj>>

\* Step 3 of main, deploy_to_workspace (lines 115-151): no return code of
\* a databricks command stops it.
DeployUpload ==
    /\ dp.pc = "upload"
    /\ dp' = [dp EXCEPT !.steps = Append(dp.steps, "deploy_to_workspace"),
                        !.pc = "app"]
    /\ UNCHANGED <<dbVars, tokVars, rs, au, imp, su, pj>>

\* The command create_or_update_app runs after 'databricks apps get'
\* returned rc (lines 167-179).
AppCommand_Swapped(rc) == IF rc = 0 THEN "apps create" ELSE "apps deploy"

AppCommand(rc) == IF rc = 0 THEN "apps deploy" ELSE "apps create"

\* Step 4 of main, create_or_update_app (lines 153-188).
DeployApp ==
    /\ dp.pc = "app"
    /\ \E get_rc \in {0, 1}, rc \in {0, 1} :
         dp' = [dp EXCEPT !.steps = dp.steps \o <<"apps get", AppCommand(get_rc)>>,
                          !.get_rc = get_rc,
                          !.app_url = IF rc = 0 THEN "url" ELSE "None",
                          !.pc = "summary"]
    /\ UNCHANGED <<dbVars, tokVars, rs, au, imp, su, pj>>

\* The summary and return True (lines 215-225).
DeployReturn ==
    /\ dp.pc = "summary"
    /\ dp' = [dp EXCEPT !.pc = "done", !.returned = "True"]
    /\ UNCHANGED <<dbVars, tokVars, rs, au, imp, su, pj>>

(***************************************************************************)
(* create_project and create_dev_branch (setup_lakebase_project.py, lines  *)
(* 47-102) against the Lakebase service, which refuses with ALREADY_EXISTS *)
(* to create a project or branch under a name that is taken.               *)
(***************************************************************************)
ProjectIds == {"training-app", "sandbox"}
BranchIds  == {"development", "feature"}

\* A resource name "projects/p" is <<"projects", p>>, a branch's name
\* "projects/p/branches/b" is <<"projects", p, "branches", b>>.

\* What a creation call can meet: no fault, a refusal of the request, a
\* failure of operation.wait() after the resource was made, a failure of
\* the get_project or get_branch that follows ALREADY_EXISTS.
CreateFaults == {"none", "PERMISSION_DENIED", "wait", "get"}

NoCallPj == [fn |-> "none", name |-> <<>>, existed |-> FALSE, outcome |-> "none",
             error |-> "none", result |-> <<>>]

NoPj == [projects |-> [p \in ProjectIds |-> 0],
         branches |-> [b \in ProjectIds \X BranchIds |-> 0],
         call |-> NoCallPj, prev |-> NoCallPj]

\* The error of the create call and of operation.wait(), "none" when the
\* resource is created and returned (lines 52-63, 83-95).
CreateError(exists, parentMissing, fault) ==
    IF fault = "PERMISSION_DENIED" THEN "PERMISSION_DENIED"
    ELSE IF parentMissing THEN "NOT_FOUND"
    ELSE IF exists THEN "ALREADY_EXISTS"
    ELSE IF fault = "wait" THEN "DEADLINE_EXCEEDED"
    ELSE "none"

\* The except clause (lines 70-74, 97-102): ALREADY_EXISTS is answered by
\* fetching the resource under its name, any other error is raised again.
OnError_AnyErrorFetches(fn, name, existed, e, fault) ==
    IF fault = "get"
    THEN [fn |-> fn, name |-> name, existed |-> existed, outcome |-> "raised",
          error |-> "get", result |-> <<>>]
    ELSE [fn |-> fn, name |-> name, existed |-> existed, outcome |-> "returned",
          error |-> "none", result |-> name]

OnError(fn, name, existed, e, fault) ==
    IF e = "ALREADY_EXISTS"
    THEN IF fault = "get"
         THEN [fn |-> fn, name |-> name, existed |-> existed, outcome |-> "raised",
               error |-> "get", result |-> <<>>]
         ELSE [fn |-> fn, name |-> name, existed |-> existed, outcome |-> "returned",
               error |-> "none", result |-> name]
    ELSE [fn |-> fn, name |-> name, existed |-> existed, outcome |-> "raised",
          error |-> e, result |-> <<>>]

\* Lines 47-74.
create_project(project_id, fault) ==
    LET exists == pj.projects[project_id] > 0
        e      == CreateError(exists, FALSE, fault)
        made   == e \in {"none", "DEADLINE_EXCEEDED"}
        name   == <<"projects", project_id>>
    IN [pj EXCEPT !.projects[project_id] = IF made THEN @ + 1 ELSE @,
                  !.prev = pj.call,
                  !.call = IF e = "none"
                           THEN [fn |-> "create_project", name |-> name,
                                 existed |-> exists, outcome |-> "returned",
                                 error |-> "none", result |-> name]
                           ELSE OnError("create_project", name, exists, e, fault)]

\* Lines 77-102.
create_dev_branch(project_id, branch_id, fault) ==
    LET exists == pj.branches[<<project_id, branch_id>>] > 0
        e      == CreateError(exists, pj.projects[project_id] = 0, fault)
        made   == e \in {"none", "DEADLINE_EXCEEDED"}
        name   == <<"projects", project_id, "branches", branch_id>>
    IN [pj EXCEPT !.branches[<<project_id, branch_id>>] = IF made THEN @ + 1 ELSE @,
                  !.prev = pj.call,
                  !.call = IF e = "none"
                           THEN [fn |-> "create_dev_branch", name |-> name,
                                 existed |-> exists, outcome |-> "returned",
                                 error |-> "none", result |-> name]
                           ELSE OnError("create_dev_branch", name, exists, e, fault)]

CreateProject ==
    /\ \E project_id \in ProjectIds, fault \in CreateFaults :
         pj' = create_project(project_id, fault)
    /\ UNCHANGED <<dbVars, tokVars, rs, au, imp, su, dp>>

CreateDevBranch ==
    /\ \E project_id \in ProjectIds, branch_id \in BranchIds, fault \in CreateFaults :
         pj' = create_dev_branch(project_id, branch_id, fault)
    /\ UNCHANGED <<dbVars, tokVars, rs, au, imp, su, dp>>

(***************************************************************************)
(* The database after setup_database() ran once on an empty database       *)
(* (setup_lakebase_tables.py, lines 314-405), the sample data cut to one   *)
(* row a table: the triggers are created before the sample rows go in.     *)
(***************************************************************************)
EmptyDb ==
    [tab |-> [t \in Tables |-> {}], audit |-> <<>>, muts |-> <<>>,
     seq |-> [n \in Tables \cup {"audit_log"} |-> 0]]

SampleData ==
    LET a == InsertRows(EmptyDb, "users", <<Row(0, 0, 1, 0)>>, TRUE, 0).e
        b == InsertRows(a, "products", <<Row(0, 0, 2, 0)>>, TRUE, 0).e
        c == InsertRows(b, "orders", <<Row(1, 0, 2, 0)>>, FALSE, 0).e
    IN InsertRows(c, "order_items", <<Row(1, 1, 2, 1)>>, FALSE, 0).e

InitDb ==
    /\ installed = Tables
    /\ db = SampleData
    /\ tx = NoTx
    /\ rolledBack = {}
    /\ pc = "idle"
    /\ connection = "None"
    /\ cursor = "None"
    /\ loc = NoLoc
    /\ last = NoCall
    /\ finished = NoLoc
    /\ ops = 0
    /\ held = [conns |-> {}, cursors |-> {}]


(***************************************************************************)
(* OAuth token management and the connection pool (dash_app.py, lines      *)
(* 32-81).  A token is known by the time it was issued.  Dash serves its   *)
(* callbacks on threads, so calls of get_connection() interleave line by   *)
(* line; a call runs within one reading of the clock, which advances       *)
(* between calls.                                                          *)
(***************************************************************************)
Threads == 1..NThreads

FreshnessWindow == 900

TokenLifetime == 3600

TickSteps == {300}

NoToken == -1

NoPool == 0

NoThreadLoc ==
    [pool |-> NoPool, conninfo |-> NoToken, issued |-> FALSE,
     entryNone |-> FALSE, entryAge |-> 0, entryPool |-> NoPool,
     rfDone |-> FALSE, rfNone |-> FALSE, rfAge |-> 0,
     result |-> "none", from |-> NoPool, handAge |-> 0]

\* Line 76 with the token's lifetime in the place of the window.
PoolTokenExpired_Lifetime ==
    postgres_password = NoToken \/ now - last_password_refresh > TokenLifetime

\* Line 76: postgres_password is None or time.time() - last_password_refresh > 900
PoolTokenExpired ==
    postgres_password = NoToken \/ now - last_password_refresh > FreshnessWindow

\* Line 40 with >= in the place of >.
TokenExpired_AtWindow ==
    postgres_password = NoToken \/ now - last_password_refresh >= FreshnessWindow

\* Line 40: the same test inside refresh_oauth_token
TokenExpired ==
    postgres_password = NoToken \/ now - last_password_refresh > FreshnessWindow

InFlight == {p \in Threads : tpc[p] # "idle"}

Raise(p) ==
    /\ tpc' = [tpc EXCEPT ![p] = "idle"]
    /\ tloc' = [tloc EXCEPT ![p].result = "error"]

Goto(p, l) == tpc' = [tpc EXCEPT ![p] = l]

\* A callback enters get_connection().
Call(p) ==
    /\ tpc[p] = "idle"
    /\ Len(pools) + Cardinality(InFlight) < MaxPools
    /\ Goto(p, "gc_check")
    /\ tloc' = [tloc EXCEPT ![p] =
                  [NoThreadLoc EXCEPT !.entryNone = postgres_password = NoToken,
                                      !.entryAge = now - last_password_refresh,
                                      !.entryPool = connection_pool]]
    /\ UNCHANGED <<now, postgres_password, last_password_refresh,
                   connection_pool, pools, lastOpenAge>>
    /\ UNCHANGED <<dbVars, extVars>>

\* get_connection, line 76
GcCheck(p) ==
    /\ tpc[p] = "gc_check"
    /\ Goto(p, IF PoolTokenExpired THEN "gc_if" ELSE "gp_check")
    /\ UNCHANGED <<now, postgres_password, last_password_refresh,
                   connection_pool, pools, tloc, lastOpenAge>>
    /\ UNCHANGED <<dbVars, extVars>>

\* get_connection, line 77: if connection_pool:
GcIf(p) ==
    /\ tpc[p] = "gc_if"
    /\ Goto(p, IF connection_pool # NoPool THEN "gc_close" ELSE "gp_check")
    /\ UNCHANGED <<now, postgres_password, last_password_refresh,
                   connection_pool, pools, tloc, lastOpenAge>>
    /\ UNCHANGED <<dbVars, extVars>>

\* get_connection, line 78: connection_pool.close() reads the global again
GcClose(p) ==
    /\ tpc[p] = "gc_close"
    /\ IF connection_pool = NoPool
       THEN Raise(p) /\ UNCHANGED pools
       ELSE /\ pools' = [pools EXCEPT ![connection_pool].closed = TRUE]
            /\ Goto(p, "gc_none")
            /\ UNCHANGED tloc
    /\ UNCHANGED <<now, postgres_password, last_password_refresh,
                   connection_pool, lastOpenAge>>
    /\ UNCHANGED <<dbVars, extVars>>

\* get_connection, line 79: connection_pool = None
GcNone(p) ==
    /\ tpc[p] = "gc_none"
    /\ connection_pool' = NoPool
    /\ Goto(p, "gp_check")
    /\ UNCHANGED <<now, postgres_password, last_password_refresh, pools,
                   tloc, lastOpenAge>>
    /\ UNCHANGED <<dbVars, extVars>>

\* get_connection_pool, line 56: if connection_pool is None
GpCheck(p) ==
    /\ tpc[p] = "gp_check"
    /\ Goto(p, IF connection_pool = NoPool THEN "rf_check" ELSE "gp_return")
    /\ UNCHANGED <<now, postgres_password, last_password_refresh,
                   connection_pool, pools, tloc, lastOpenAge>>
    /\ UNCHANGED <<dbVars, extVars>>

\* refresh_oauth_token, line 40
RfCheck(p) ==
    /\ tpc[p] = "rf_check"
    /\ tloc' = [tloc EXCEPT ![p].rfNone = postgres_password = NoToken,
                            ![p].rfAge = now - last_password_refresh,
                            ![p].rfDone = ~TokenExpired]
    /\ Goto(p, IF TokenExpired THEN "rf_issue" ELSE "gp_build")
    /\ UNCHANGED <<now, postgres_password, last_password_refresh,
                   connection_pool, pools, lastOpenAge>>
    /\ UNCHANGED <<dbVars, extVars>>

\* Lines 42-48 with the refresh time stamped before oauth_token() is called.
RfIssue_StampsFirst(p) ==
    /\ tpc[p] = "rf_issue"
    /\ last_password_refresh' = now
    /\ \E ok \in BOOLEAN :
         IF ok
         THEN /\ postgres_password' = now
              /\ tloc' = [tloc EXCEPT ![p].issued = TRUE]
              /\ Goto(p, "rf_stamp")
         ELSE Raise(p) /\ UNCHANGED postgres_password
    /\ UNCHANGED <<now, connection_pool, pools, lastOpenAge>>
    /\ UNCHANGED <<dbVars, extVars>>

\* refresh_oauth_token, lines 42-48: oauth_token() issues a token now, or
\* raises and the exception goes up to connect().
RfIssue(p) ==
    /\ tpc[p] = "rf_issue"
    /\ \E ok \in BOOLEAN :
         IF ok
         THEN /\ postgres_password' = now
              /\ tloc' = [tloc EXCEPT ![p].issued = TRUE]
              /\ Goto(p, "rf_stamp")
         ELSE Raise(p) /\ UNCHANGED postgres_password
    /\ UNCHANGED <<now, last_password_refresh, connection_pool, pools, lastOpenAge>>
    /\ UNCHANGED <<dbVars, extVars>>

\* refresh_oauth_token, line 44: last_password_refresh = time.time()
RfStamp(p) ==
    /\ tpc[p] = "rf_stamp"
    /\ last_password_refresh' = now
    /\ tloc' = [tloc EXCEPT ![p].rfDone = TRUE]
    /\ Goto(p, "gp_build")
    /\ UNCHANGED <<now, postgres_password, connection_pool, pools, lastOpenAge>>
    /\ UNCHANGED <<dbVars, extVars>>

\* get_connection_pool, lines 58-66: the connection string takes the
\* password the global holds now
GpBuild(p) ==
    /\ tpc[p] = "gp_build"
    /\ tloc' = [tloc EXCEPT ![p].conninfo = postgres_password]
    /\ Goto(p, "gp_create")
    /\ UNCHANGED <<now, postgres_password, last_password_refresh,
                   connection_pool, pools, lastOpenAge>>
    /\ UNCHANGED <<dbVars, extVars>>

\* get_connection_pool, line 67: connection_pool = ConnectionPool(conn_string,
\* min_size=2, max_size=10).  The new pool opens its first connections with
\* the password of its connection string; the constructor may raise.
GpCreate(p) ==
    /\ tpc[p] = "gp_create"
    /\ \E ok \in BOOLEAN :
         IF ok
         THEN /\ pools' = Append(pools, [token |-> tloc[p].conninfo, closed |-> FALSE])
              /\ connection_pool' = Len(pools) + 1
              /\ lastOpenAge' = now - tloc[p].conninfo
              /\ Goto(p, "gp_return")
              /\ UNCHANGED tloc
         ELSE Raise(p) /\ UNCHANGED <<pools, connection_pool, lastOpenAge>>
    /\ UNCHANGED <<now, postgres_password, last_password_refresh>>
    /\ UNCHANGED <<dbVars, extVars>>

\* get_connection_pool, line 69: return connection_pool
GpReturn(p) ==
    /\ tpc[p] = "gp_return"
    /\ tloc' = [tloc EXCEPT ![p].pool = connection_pool]
    /\ Goto(p, "gc_conn")
    /\ UNCHANGED <<now, postgres_password, last_password_refresh,
                   connection_pool, pools, lastOpenAge>>
    /\ UNCHANGED <<dbVars, extVars>>

\* get_connection, line 81: .connection() on what get_connection_pool()
\* returned.  None has no such attribute and a closed pool refuses; an open
\* pool hands out a connection, one it holds or one it opens now.
GcConn(p) ==
    /\ tpc[p] = "gc_conn"
    /\ LET k == tloc[p].pool IN
       IF k = NoPool \/ pools[k].closed
       THEN Raise(p) /\ UNCHANGED lastOpenAge
       ELSE /\ tpc' = [tpc EXCEPT ![p] = "idle"]
            /\ tloc' = [tloc EXCEPT ![p].result = "conn", ![p].from = k,
                                    ![p].handAge = now - pools[k].token]
            /\ \E opens \in BOOLEAN :
                 lastOpenAge' = IF opens THEN now - pools[k].token ELSE lastOpenAge
    /\ UNCHANGED <<now, postgres_password, last_password_refresh,
                   connection_pool, pools>>
    /\ UNCHANGED <<dbVars, extVars>>

\* The pool's own worker replaces a connection (one that was lost or has
\* reached its lifetime) with the connection string the pool was built with.
PoolReconnect ==
    /\ \E k \in 1..Len(pools) :
         /\ ~pools[k].closed
         /\ lastOpenAge' = now - pools[k].token
    /\ UNCHANGED <<now, postgres_password, last_password_refresh,
                   connection_pool, pools, tpc, tloc>>
    /\ UNCHANGED <<dbVars, extVars>>

\* Time passes between calls; what the calls before it left behind goes.
Tick ==
    /\ InFlight = {}
    /\ \E d \in TickSteps :
         /\ now + d <= MaxNow
         /\ now' = now + d
    /\ tloc' = [p \in Threads |-> NoThreadLoc]
    /\ UNCHANGED <<postgres_password, last_password_refresh, connection_pool,
                   pools, tpc, lastOpenAge>>
    /\ UNCHANGED <<dbVars, extVars>>

\* Lines 32-35: the module globals at import
InitTok ==
    /\ now = 0
    /\ postgres_password = NoToken
    /\ last_password_refresh = 0
    /\ connection_pool = NoPool
    /\ pools = <<>>
    /\ tpc = [p \in Threads |-> "idle"]
    /\ tloc = [p \in Threads |-> NoThreadLoc]
    /\ lastOpenAge = 0

(***************************************************************************)
(* Endpoint resolution: get_connection_params of setup_lakebase_tables.py  *)
(* and get_connection_info, resize_compute of setup_lakebase_project.py.   *)
(* An endpoint is known by its name; calls is the sequence of calls a run  *)
(* made to the workspace service and to the database, in order.            *)
(***************************************************************************)
EndpointNames == {"ep1", "ep2"}

\* What list_endpoints may return
EndpointLists ==
    {<<>>} \cup {<<a>> : a \in EndpointNames}
           \cup {<<a, b>> : a \in EndpointNames, b \in EndpointNames}

\* The call of a run that raises, "none" when none does
ApiFaults == {"none", "list_endpoints", "get_endpoint", "generate_database_credential",
              "current_user.me", "oauth_token"}

MinCus == {0, 1, 10}
MaxCus == {2, 8, 9, 12}

NoRs == [fn |-> "none", project |-> "", pghost |-> "", pguser |-> "",
         pgpassword |-> "", endpoints |-> <<>>, min_cu |-> 0, max_cu |-> 0,
         calls |-> <<>>, outcome |-> "none", host |-> "", username |-> "",
         password |-> ""]

ApiCall(api, arg) == [api |-> api, arg |-> arg]

HostOf(ep) == IF ep = "ep1" THEN "host1" ELSE "host2"

\* endpoints[0] with the last endpoint in its place.
FirstEndpoint_Last(endpoints) == endpoints[Len(endpoints)]

\* endpoints[0]
FirstEndpoint(endpoints) == endpoints[1]

\* Line 58 without "and not PGHOST_OVERRIDE".
AutoscalingMode_ProjectFirst(project, pghost) == project # ""

\* setup_lakebase_tables.py, line 58: LAKEBASE_PROJECT_ID and not PGHOST_OVERRIDE
AutoscalingMode(project, pghost) == project # "" /\ pghost = ""

\* The calls c1, c2, ... of a run up to and including the one that raises.
RECURSIVE RunCalls(_, _)
RunCalls(cs, fault) ==
    IF cs = <<>> THEN <<>>
    ELSE IF Head(cs).api = fault THEN <<Head(cs)>>
    ELSE <<Head(cs)>> \o RunCalls(Tail(cs), fault)

Raised(cs, fault) == \E i \in 1..Len(cs) : cs[i].api = fault

\* get_connection_params, lines 54-87, and what setup_database does with
\* its result, lines 95-112: psycopg.connect to the host.
get_connection_params(project, pghost, pguser, pgpassword, endpoints, fault) ==
    LET in == [NoRs EXCEPT !.fn = "get_connection_params", !.project = project,
                           !.pghost = pghost, !.pguser = pguser,
                           !.pgpassword = pgpassword, !.endpoints = endpoints]
    IN IF AutoscalingMode(project, pghost)
       THEN IF fault = "list_endpoints"
            THEN [in EXCEPT !.calls = <<ApiCall("list_endpoints", project)>>,
                            !.outcome = "raised"]
            ELSE IF endpoints = <<>>
            THEN [in EXCEPT !.calls = <<ApiCall("list_endpoints", project)>>,
                            !.outcome = "exit1"]
            ELSE LET ep == FirstEndpoint(endpoints)
                     cs == <<ApiCall("list_endpoints", project),
                             ApiCall("get_endpoint", ep),
                             ApiCall("current_user.me", ""),
                             ApiCall("generate_database_credential", ep)>>
                 IN IF Raised(cs, fault)
                    THEN [in EXCEPT !.calls = RunCalls(cs, fault),
                                    !.outcome = "raised"]
                    ELSE [in EXCEPT !.calls = cs \o <<ApiCall("psycopg.connect", HostOf(ep))>>,
                                    !.outcome = "returned",
                                    !.host = HostOf(ep), !.username = "me",
                                    !.password = "credential"]
       ELSE IF pghost # ""
       THEN LET cs == (IF pguser = "" THEN <<ApiCall("current_user.me", "")>> ELSE <<>>)
                      \o (IF pgpassword = "" THEN <<ApiCall("oauth_token", "")>> ELSE <<>>)
            IN IF Raised(cs, fault)
               THEN [in EXCEPT !.calls = RunCalls(cs, fault), !.outcome = "raised"]
               ELSE [in EXCEPT !.calls = cs \o <<ApiCall("psycopg.connect", pghost)>>,
                               !.outcome = "returned",
                               !.host = pghost,
                               !.username = IF pguser = "" THEN "me" ELSE pguser,
                               !.password = IF pgpassword = "" THEN "oauth"
                                            ELSE pgpassword]
       ELSE [in EXCEPT !.outcome = "exit1"]

\* get_connection_info, setup_lakebase_project.py, lines 147-200
get_connection_info(project_id, endpoints, fault) ==
    LET in == [NoRs EXCEPT !.fn = "get_connection_info", !.project = project_id,
                           !.endpoints = endpoints]
    IN IF fault = "list_endpoints"
       THEN [in EXCEPT !.calls = <<ApiCall("list_endpoints", project_id)>>,
                       !.outcome = "raised"]
       ELSE IF endpoints = <<>>
       THEN [in EXCEPT !.calls = <<ApiCall("list_endpoints", project_id)>>,
                       !.outcome = "error_none"]
       ELSE LET ep == FirstEndpoint(endpoints)
                cs == <<ApiCall("list_endpoints", project_id),
                        ApiCall("get_endpoint", ep),
                        ApiCall("generate_database_credential", ep),
                        ApiCall("current_user.me", "")>>
            IN IF Raised(cs, fault)
               THEN [in EXCEPT !.calls = RunCalls(cs, fault), !.outcome = "raised"]
               ELSE [in EXCEPT !.calls = cs, !.outcome = "returned",
                               !.host = HostOf(ep), !.username = "me"]

\* resize_compute, setup_lakebase_project.py, lines 105-144
resize_compute(project_id, min_cu, max_cu, endpoints, fault) ==
    LET in == [NoRs EXCEPT !.fn = "resize_compute", !.project = project_id,
                           !.endpoints = endpoints, !.min_cu = min_cu,
                           !.max_cu = max_cu]
    IN IF max_cu - min_cu > 8
       THEN [in EXCEPT !.outcome = "exit1"]
       ELSE IF fault = "list_endpoints"
       THEN [in EXCEPT !.calls = <<ApiCall("list_endpoints", project_id)>>,
                       !.outcome = "raised"]
       ELSE IF endpoints = <<>>
       THEN [in EXCEPT !.calls = <<ApiCall("list_endpoints", project_id)>>,
                       !.outcome = "exit1"]
       ELSE [in EXCEPT !.calls = <<ApiCall("list_endpoints", project_id),
                                   ApiCall("update_endpoint",
                                           <<FirstEndpoint(endpoints), min_cu, max_cu>>)>>,
                       !.outcome = "returned"]

\* python setup_lakebase_tables.py, under any environment
SetupConnect ==
    /\ \E project \in {"", "training-app"}, pghost \in {"", "pg.example"},
          pguser \in {"", "user"}, pgpassword \in {"", "secret"},
          endpoints \in EndpointLists, fault \in ApiFaults :
         rs' = get_connection_params(project, pghost, pguser, pgpassword,
                                     endpoints, fault)
    /\ UNCHANGED <<dbVars, tokVars, au, imp, su, dp, pj>>

\* python setup_lakebase_project.py --info
GetConnectionInfo ==
    /\ \E endpoints \in EndpointLists, fault \in ApiFaults :
         rs' = get_connection_info("training-app", endpoints, fault)
    /\ UNCHANGED <<dbVars, tokVars, au, imp, su, dp, pj>>

\* python setup_lakebase_project.py --resize --min-cu .. --max-cu ..
ResizeCompute ==
    /\ \E min_cu \in MinCus, max_cu \in MaxCus, endpoints \in EndpointLists,
          fault \in {"none", "list_endpoints"} :
         rs' = resize_compute("training-app", min_cu, max_cu, endpoints, fault)
    /\ UNCHANGED <<dbVars, tokVars, au, imp, su, dp, pj>>

(***************************************************************************)
(* Concurrent sessions writing audit_log, and the audit feed.              *)
(*                                                                         *)
(* Each callback holds its own connection, and Dash serves callbacks on    *)
(* threads, so their transactions overlap.  audit_id is SERIAL: nextval at *)
(* the trigger's INSERT, never rolled back.  created_at defaults to        *)
(* CURRENT_TIMESTAMP, the start time of the transaction (setup_lakebase_   *)
(* tables.py, lines 186 and 192).  psycopg opens the transaction at the    *)
(* first cursor.execute after a commit or rollback; execute_query does not *)
(* end it after a SELECT (dash_app.py, lines 113-115).  au.feed is what    *)
(* update_audit_log returned, kept while no session has moved since.       *)
(***************************************************************************)
Sessions == 1..NSessions

AuditLimit == 50

FeedTables == {"users", "products"}

FeedOps == {"INSERT", "DELETE"}

\* The writes of the sessions: add_user's INSERT and a DELETE on products
Writes == {<<"users", "INSERT">>, <<"products", "DELETE">>}

NoSession == [pc |-> "idle", start |-> 0, pending |-> <<>>]

NoFeed == [called |-> FALSE, table_filter |-> "", operation_filter |-> "",
           result |-> <<>>]

\* The transaction's start time after cursor.execute in session x
TxStart(x) == IF au.sess[x].pc = "idle" THEN au.clock ELSE au.sess[x].start

\* The records the trigger writes for a statement that touches k rows of
\* table t with operation op, in a transaction started at time start
RECURSIVE TriggerRecords(_, _, _, _, _)
TriggerRecords(seq, t, op, start, k) ==
    IF k = 0 THEN <<>>
    ELSE <<[audit_id |-> seq + 1, table_name |-> t, operation |-> op,
            created_at |-> start]>>
         \o TriggerRecords(seq + 1, t, op, start, k - 1)

\* execute_query with a SELECT, lines 113-115: the rows come back and the
\* transaction stays open
SessRead(x) ==
    /\ au.sess[x].pc \in {"idle", "open"}
    /\ au' = [au EXCEPT !.feed = NoFeed, !.sess[x].pc = "open", !.sess[x].start = TxStart(x)]
    /\ UNCHANGED <<dbVars, tokVars, rs, imp, su, dp, pj>>

\* execute_query with a write, line 113: cursor.execute runs the statement
\* and its triggers
SessWrite(x) ==
    /\ au.sess[x].pc \in {"idle", "open"}
    /\ \E w \in Writes, k \in 1..2 :
         /\ au.seq + k <= MaxAuditId
         /\ au' = [au EXCEPT !.feed = NoFeed, !.sess[x].pc = "executed",
                             !.sess[x].start = TxStart(x),
                             !.sess[x].pending =
                                 @ \o TriggerRecords(au.seq, w[1], w[2], TxStart(x), k),
                             !.seq = @ + k]
    /\ UNCHANGED <<dbVars, tokVars, rs, imp, su, dp, pj>>

\* execute_query, lines 118 and 121: self.connection.commit()
SessCommit(x) ==
    /\ au.sess[x].pc = "executed"
    /\ au' = [au EXCEPT !.feed = NoFeed, !.sess[x] = NoSession,
                        !.log = @ \o au.sess[x].pending]
    /\ UNCHANGED <<dbVars, tokVars, rs, imp, su, dp, pj>>

\* execute_query, line 124: self.connection.rollback()
SessRollback(x) ==
    /\ au.sess[x].pc = "executed"
    /\ au' = [au EXCEPT !.feed = NoFeed, !.sess[x] = NoSession]
    /\ UNCHANGED <<dbVars, tokVars, rs, imp, su, dp, pj>>

\* LakebaseConnection.close, lines 127-132, with the transaction of a
\* SELECT still open
SessClose(x) ==
    /\ au.sess[x].pc = "open"
    /\ au' = [au EXCEPT !.feed = NoFeed, !.sess[x] = NoSession]
    /\ UNCHANGED <<dbVars, tokVars, rs, imp, su, dp, pj>>

AuTick ==
    /\ au.clock < MaxClock
    /\ au' = [au EXCEPT !.feed = NoFeed, !.clock = @ + 1]
    /\ UNCHANGED <<dbVars, tokVars, rs, imp, su, dp, pj>>

\* update_audit_log, lines 1286-1292: 'all' and the empty value add no
\* condition
Matches(a, table_filter, operation_filter) ==
    /\ table_filter \in {"", "all"} \/ a.table_name = table_filter
    /\ operation_filter \in {"", "all"} \/ a.operation = operation_filter

\* ORDER BY created_at DESC, line 1294: records with equal created_at come
\* in any order
OrderedByCreatedAtDesc(q) ==
    \A i, j \in 1..Len(q) : i < j => q[i].created_at >= q[j].created_at

\* LIMIT 50, line 1294
Limit(q, n) == SubSeq(q, 1, IF Len(q) < n THEN Len(q) ELSE n)

\* What the SELECT of update_audit_log may return on the committed records
FeedResults(log, table_filter, operation_filter) ==
    LET M == {i \in 1..Len(log) : Matches(log[i], table_filter, operation_filter)}
        n == Cardinality(M)
        Orders == {f \in [1..n -> M] : \A i, j \in 1..n : i # j => f[i] # f[j]}
        Rows == {[i \in 1..n |-> log[f[i]]] : f \in Orders}
    IN {Limit(q, AuditLimit) : q \in {r \in Rows : OrderedByCreatedAtDesc(r)}}

\* update_audit_log, lines 1273-1301
UpdateAuditLog ==
    /\ \E tf \in {"all"} \cup FeedTables, of \in {""} \cup FeedOps :
         \E q \in FeedResults(au.log, tf, of) :
            au' = [au EXCEPT !.feed = [called |-> TRUE, table_filter |-> tf,
                                       operation_filter |-> of, result |-> q]]
    /\ UNCHANGED <<dbVars, tokVars, rs, imp, su, dp, pj>>

InitExt ==
    /\ rs = NoRs
    /\ imp = NoImp
    /\ su = NoSu
    /\ dp = NoDp
    /\ pj = NoPj
    /\ au = [clock |-> 0, seq |-> 0, sess |-> [x \in Sessions |-> NoSession],
             log |-> <<>>, feed |-> NoFeed]

(***************************************************************************)
(* The specifications.                                                     *)
(***************************************************************************)
Init == InitDb /\ InitTok /\ InitExt

Next ==
    \/ Enter
    \/ AddProduct
    \/ AddUser
    \/ CreateOrderInsert
    \/ CreateOrderSelect
    \/ CreateOrderItem
    \/ CreateOrderTotal
    \/ QueryBuilder
    \/ Exit

Spec == Init /\ [][Next]_vars

NextBuilder ==
    \/ Enter
    \/ AddProduct
    \/ AddUser
    \/ CreateOrderInsert
    \/ CreateOrderSelect
    \/ CreateOrderItem
    \/ CreateOrderTotal
    \/ QueryBuilder
    \/ QueryBuilderAudit
    \/ Exit

SpecBuilder == Init /\ [][NextBuilder]_vars

NextAudit ==
    \/ \E x \in Sessions : SessRead(x)
    \/ \E x \in Sessions : SessWrite(x)
    \/ \E x \in Sessions : SessCommit(x)
    \/ \E x \in Sessions : SessRollback(x)
    \/ \E x \in Sessions : SessClose(x)
    \/ AuTick
    \/ UpdateAuditLog

SpecAudit == Init /\ [][NextAudit]_vars

NextResolve ==
    \/ SetupConnect
    \/ GetConnectionInfo
    \/ ResizeCompute

SpecResolve == Init /\ [][NextResolve]_vars

ThreadStep(p) ==
    \/ Call(p)
    \/ GcCheck(p)
    \/ GcIf(p)
    \/ GcClose(p)
    \/ GcNone(p)
    \/ GpCheck(p)
    \/ RfCheck(p)
    \/ RfIssue(p)
    \/ RfStamp(p)
    \/ GpBuild(p)
    \/ GpCreate(p)
    \/ GpReturn(p)
    \/ GcConn(p)

NextToken ==
    \/ \E p \in Threads : ThreadStep(p)
    \/ PoolReconnect
    \/ Tick

SpecToken == Init /\ [][NextToken]_vars

\* Bulk imports, one after the other, each in its own with-block.
NextImport ==
    \/ ImportEnter
    \/ ImportRowUnconvertible
    \/ ImportRow
    \/ ImportDone
    \/ Exit

SpecImport == Init /\ [][NextImport]_vars

\* setup_database run again, up to MaxRuns times.
NextSetup ==
    \/ SetupBegin
    \/ SetupTrigger
    \/ SetupUsers
    \/ SetupProducts
    \/ SetupOrders
    \/ SetupReturn

SpecSetup == Init /\ [][NextSetup]_vars

\* One run of deploy_and_setup.py.
NextDeploy ==
    \/ DeployToken
    \/ DeploySetup
    \/ DeployStatement
    \/ DeployVerify
    \/ DeployUpload
    \/ DeployApp
    \/ DeployReturn

SpecDeploy == Init /\ [][NextDeploy]_vars

\* Calls of create_project and create_dev_branch, one after the other.
NextProject ==
    \/ CreateProject
    \/ CreateDevBranch

SpecProject == Init /\ [][NextProject]_vars


(***************************************************************************)
(* Properties of the audit trail.                                          *)
(***************************************************************************)
Range(q) == {q[i] : i \in 1..Len(q)}

AuditKey(a) == <<a.table_name, a.operation, a.record_id>>

MutKey(m) == <<m.t, m.op, m.id>>

CountAudit(e, k) == Cardinality({i \in 1..Len(e.audit) : AuditKey(e.audit[i]) = k})

CountMuts(e, k) == Cardinality({i \in 1..Len(e.muts) : MutKey(e.muts[i]) = k})

\* The row a JSON object of table t stands for.
FromJson(t, j) ==
    [id |-> JsonGet(j, KeyCol(t)),
     ref |-> IF t = "orders" THEN JsonGet(j, "user_id")
             ELSE IF t = "order_items" THEN JsonGet(j, "order_id") ELSE 0,
     ref2 |-> IF t = "order_items" THEN JsonGet(j, "product_id") ELSE 0,
     val |-> JsonGet(j, ValCol(t)),
     qty |-> IF t = "order_items" THEN JsonGet(j, "quantity") ELSE 0]

Decoded(t, d) == {FromJson(t, j) : j \in d}

C3_SerializationRule ==
    /\ Len(db.audit) = Len(db.muts)
    /\ \A i \in 1..Len(db.audit) :
         LET a == db.audit[i]
             m == db.muts[i]
         IN /\ a.table_name = m.t
            /\ a.operation = m.op
            /\ Decoded(m.t, a.old_data) = m.old
            /\ Decoded(m.t, a.new_data) = m.new
            /\ a.operation = "INSERT" => a.old_data = Null /\ a.new_data # Null
            /\ a.operation = "UPDATE" => a.old_data # Null /\ a.new_data # Null
            /\ a.operation = "DELETE" => a.old_data # Null /\ a.new_data = Null

\* The log holds an UPDATE that changed a row and a DELETE.
C3_Witness ==
    /\ \E a \in Range(db.audit) : a.operation = "UPDATE" /\ a.old_data # a.new_data
    /\ \E a \in Range(db.audit) : a.operation = "DELETE" /\ a.table_name = "order_items"

(***************************************************************************)
(* Properties of execute_query and create_order.                           *)
(***************************************************************************)
\* C4: every call of execute_query ends having done exactly one commit or
\* exactly one rollback, with no transaction left open.
C4_ExactlyOneCommitOrRollback ==
    last.called => last.commits + last.rollbacks = 1 /\ ~last.open

\* C5: once create_order has issued its order_items insert and finished,
\* its order is durable only together with its item and its total.
C5_NoPartialCommit ==
    (finished.cb = "create_order" /\ finished.product_id # 0
       /\ finished.order_id \in Ids(db, "orders"))
    => /\ \E it \in db.tab["order_items"] : it.ref = finished.order_id
       /\ RowOf(db, "orders", finished.order_id).val # 0

\* C6: a call of execute_query that fails leaves the caller with the error
\* the statement raised, whatever the rollback does.
C6_OriginalErrorSurfaces ==
    (last.called /\ last.error # "none") => last.raised = last.error


(***************************************************************************)
(* Properties of the token cache and the pool (SpecToken).                 *)
(***************************************************************************)
Stale(none, age) == none \/ age > FreshnessWindow

C8_SingleFlight ==
    \A p, q \in Threads : (p # q) => ~(tloc[p].issued /\ tloc[q].issued)

\* C9: every physical connection is opened with a credential younger than
\* the token's lifetime, the pool's own reconnects included.
C9_NoExpiredTokenPresented == lastOpenAge < TokenLifetime

C11_BoundedRetryWithBackoff ==
    (loc.opened = "noconn") => (loc.attempts <= 3 /\ loc.waited = 2 + 4)

\* C12: __enter__ returns to the with block only with a live connection and
\* its cursor; a connection that could not be opened is an error raised to
\* the caller of the operation.
C12_OpenFailsWithoutConnection ==
    (loc.entered = "returned") => (connection = "conn" /\ cursor = "cursor")

\* C16: a call of execute_query that returns gives a row set for a
\* statement that reads rows and for a write with RETURNING, and the
\* affected-row count for any other write.
C16_ResultMatchesKind ==
    (last.called /\ last.raised = "none") =>
        last.result = (IF last.kind = "select" \/ last.returning
                       THEN "rows" ELSE "count")

C13_IssuanceFailurePropagates ==
    [][\A p \in Threads :
         (tpc[p] = "rf_issue" /\ tpc'[p] = "idle") =>
             /\ tloc'[p].result = "error"
             /\ ~tloc'[p].issued
             /\ postgres_password' = postgres_password
             /\ last_password_refresh' = last_password_refresh
             /\ TokenExpired' = TokenExpired]_vars

\* An issuance failed while a token older than the window was cached: the
\* call ended with the error and the cache holds the old token and its time.
C13_Witness ==
    \E p \in Threads :
        /\ tpc[p] = "idle"
        /\ tloc[p].result = "error"
        /\ ~tloc[p].issued
        /\ ~tloc[p].rfDone
        /\ ~tloc[p].rfNone
        /\ tloc[p].rfAge > FreshnessWindow
        /\ postgres_password # NoToken
        /\ now - last_password_refresh = tloc[p].rfAge

(***************************************************************************)
(* Properties of endpoint resolution (SpecResolve).                        *)
(***************************************************************************)
DiscoveryApis == {"list_endpoints", "get_endpoint", "generate_database_credential"}

Called(api) == \E i \in 1..Len(rs.calls) : rs.calls[i].api = api

\* list_endpoints was called and returned
Listed ==
    /\ Called("list_endpoints")
    /\ ~(rs.outcome = "raised" /\ Len(rs.calls) = 1)

\* C14: with PGHOST set, get_connection_params calls no discovery API,
\* project id or not, and the host it returns is PGHOST; a run that calls
\* a discovery API has a project id and no PGHOST.
C14_StaticOverridePrecedence ==
    rs.fn = "get_connection_params" =>
        /\ rs.pghost # "" =>
               /\ \A api \in DiscoveryApis : ~Called(api)
               /\ rs.outcome \in {"returned", "raised"}
               /\ rs.outcome = "returned" => rs.host = rs.pghost
        /\ (\E api \in DiscoveryApis : Called(api)) =>
               (rs.project # "" /\ rs.pghost = "")

\* Project id and PGHOST both set: PGHOST came back.
C14_Witness ==
    /\ rs.fn = "get_connection_params"
    /\ rs.project # ""
    /\ rs.pghost # ""
    /\ rs.outcome = "returned"
    /\ rs.host = rs.pghost
    /\ Called("psycopg.connect")

\* C15: a resolver that got no endpoint from list_endpoints ends in an
\* error, having made no other call: no get_endpoint, no credential, no
\* connection, no update.  One that got endpoints uses the first of them in
\* every call that names an endpoint and connects to that endpoint's host.
C15_NoEndpointIsAnError ==
    Listed =>
        IF rs.endpoints = <<>>
        THEN /\ rs.outcome \in {"exit1", "error_none"}
             /\ Len(rs.calls) = 1
        ELSE \A i \in 1..Len(rs.calls) :
               LET c == rs.calls[i] IN
               /\ c.api \in {"get_endpoint", "generate_database_credential"} =>
                      c.arg = rs.endpoints[1]
               /\ c.api = "update_endpoint" => c.arg[1] = rs.endpoints[1]
               /\ c.api = "psycopg.connect" => c.arg = HostOf(rs.endpoints[1])

\* get_connection_info found no endpoint: it reported the error after its
\* one call and returned None.
C15_Witness ==
    /\ rs.fn = "get_connection_info"
    /\ rs.endpoints = <<>>
    /\ rs.outcome = "error_none"
    /\ Len(rs.calls) = 1
    /\ Called("list_endpoints")

(***************************************************************************)
(* Properties of the audit log under the Query Builder (SpecBuilder).      *)
(***************************************************************************)
\* C18: no step of the application removes or changes an audit record that
\* exists, and every record a step adds is the record of a row mutation
\* made by that step's statement.
C18_AuditAppendOnly ==
    [][/\ Len(db'.audit) >= Len(db.audit)
       /\ \A i \in 1..Len(db.audit) : db'.audit[i] = db.audit[i]
       /\ Len(db'.audit) - Len(db.audit) = Len(db'.muts) - Len(db.muts)]_vars

(***************************************************************************)
(* Properties of the audit log's order and of the audit feed (SpecAudit).  *)
(***************************************************************************)
\* C19: the committed audit records have distinct audit_id values, and of
\* two records the one with the smaller audit_id has no later created_at.
\* (That audit_id grows in the order of the trigger's inserts is how the
\* sequence hands out values.)
C19_OrderedByIdAndTimestamp ==
    \A i, j \in 1..Len(au.log) :
        /\ i # j => au.log[i].audit_id # au.log[j].audit_id
        /\ au.log[i].audit_id < au.log[j].audit_id =>
               au.log[i].created_at <= au.log[j].created_at

\* C20: what update_audit_log shows are records that match both filters,
\* 50 at most, all the matching ones when there are no more than 50, by
\* descending created_at, and never a record after one appended before it.
C20_FeedNewestFirst ==
    au.feed.called =>
        LET q == au.feed.result
            M == {i \in 1..Len(au.log) :
                    Matches(au.log[i], au.feed.table_filter, au.feed.operation_filter)}
        IN /\ \A i \in 1..Len(q) :
                  /\ q[i] \in Range(au.log)
                  /\ Matches(q[i], au.feed.table_filter, au.feed.operation_filter)
           /\ Len(q) <= AuditLimit
           /\ Len(q) = (IF Cardinality(M) < AuditLimit THEN Cardinality(M) ELSE AuditLimit)
           /\ \A i, j \in 1..Len(q) : i < j =>
                  /\ q[i].created_at >= q[j].created_at
                  /\ q[i].audit_id > q[j].audit_id

(***************************************************************************)
(* Properties of a cascading delete (Spec).                                *)
(***************************************************************************)
\* The audit records a step appended
Appended == {db'.audit[i] : i \in (Len(db.audit) + 1)..Len(db'.audit)}

\* C30: a committed statement that deletes orders appends, for each order,
\* one DELETE record of the order and one DELETE record of each of its k
\* order_items rows, holding the row as it was and no new data, k + 1 in
\* all; a DELETE that is rolled back leaves the audit log as it was.
C30_CascadeDeleteAudited ==
    [][/\ \A o \in Ids(db, "orders") \ Ids(db', "orders") :
            LET its == {r \in db.tab["order_items"] : r.ref = o}
                recs == {a \in Appended :
                           \/ AuditKey(a) = <<"orders", "DELETE", o>>
                           \/ /\ a.table_name = "order_items"
                              /\ a.operation = "DELETE"
                              /\ a.record_id \in {r.id : r \in its}}
            IN /\ Cardinality(recs) = Cardinality(its) + 1
               /\ \A r \in its :
                      \E a \in recs :
                         /\ AuditKey(a) = <<"order_items", "DELETE", r.id>>
                         /\ Decoded("order_items", a.old_data) = {r}
                         /\ a.new_data = Null
               /\ \A r \in its : r \notin db'.tab["order_items"]
       /\ (last'.kind = "delete" /\ last'.rollbacks = 1) =>
              (db'.audit = db.audit /\ db'.tab = db.tab)]_vars

\* The order of the sample data was deleted with its one order_items row:
\* both DELETE records are in the log and both rows are gone.
C30_Witness ==
    /\ last.kind = "delete"
    /\ last.commits = 1
    /\ 1 \notin Ids(db, "orders")
    /\ 1 \notin Ids(db, "order_items")
    /\ \E a \in Range(db.audit) : AuditKey(a) = <<"orders", "DELETE", 1>>
    /\ \E a \in Range(db.audit) : AuditKey(a) = <<"order_items", "DELETE", 1>>

(***************************************************************************)
(* Properties of the pools under concurrent callers (SpecToken).           *)
(***************************************************************************)
\* C28: at most one pool is live: every pool ever created is the one the
\* global connection_pool names or has been closed, none is left open and
\* unnamed by an overwritten global.
C28_OnePoolLive ==
    \A k \in 1..Len(pools) : pools[k].closed \/ connection_pool = k

(***************************************************************************)
(* Properties of resize_compute (SpecResolve).                             *)
(***************************************************************************)
\* C26: a resize_compute with max_cu - min_cu > 8 ends in an error having
\* called neither list_endpoints nor update_endpoint, and every call of
\* update_endpoint carries a range with 0 <= max_cu - min_cu <= 8.
C26_RangeValidatedFirst ==
    rs.fn = "resize_compute" =>
        /\ rs.max_cu - rs.min_cu > 8 => (rs.outcome = "exit1" /\ rs.calls = <<>>)
        /\ \A i \in 1..Len(rs.calls) :
               rs.calls[i].api = "update_endpoint" =>
                   /\ 0 <= rs.calls[i].arg[3] - rs.calls[i].arg[2]
                   /\ rs.calls[i].arg[3] - rs.calls[i].arg[2] <= 8

(***************************************************************************)
(* Properties of the with LakebaseConnection() block (Spec).               *)
(***************************************************************************)
\* C22: every connection and cursor opened by a with LakebaseConnection()
\* block is closed when the block has ended, whether it ended normally or
\* by an exception; inside a block the only connection open is the one
\* that block opened, so no operation uses the connection of another.
C22_ClosedAtBlockEnd ==
    /\ pc = "idle" => (held.conns = {} /\ held.cursors = {})
    /\ held.conns \subseteq {ops}
    /\ held.cursors \subseteq held.conns

\* Two blocks have ended, the latest by an exception and with a connection
\* that had been opened, and nothing is left open.
C22_Witness ==
    /\ pc = "idle"
    /\ ops >= 2
    /\ finished.opened # "noconn"
    /\ finished.exc # "none"
    /\ held.conns = {}

(***************************************************************************)
(* Properties of execute_bulk_import (SpecImport).                         *)
(***************************************************************************)
\* The product rows committed since the import began.
Imported == Ids(db, "products") \ imp.before

\* C23 as stated: when the loop is over, exactly one insert was attempted
\* for each row of the frame, in row order; inserted + number of errors =
\* number of rows; inserted = number of product rows committed.
C23_OneInsertPerRow ==
    imp.feedback # "none" =>
        /\ imp.attempted = [i \in 1..Len(imp.rows) |-> i]
        /\ imp.inserted + Len(imp.errors) = Len(imp.rows)
        /\ imp.inserted = Cardinality(Imported)

\* C23: at every point of the loop, at most one insert was attempted per
\* row, in row order: exactly one for each row whose values convert, none
\* for a row whose conversion raises, which is recorded as an error; a
\* failed insert is rolled back and leaves no product row, earlier rows
\* stay and later rows are still tried; inserted + number of errors =
\* rows handled, all of them when the loop is over; inserted = number of
\* product rows committed by the import.
C23_RowsIndependent ==
    loc.cb = "bulk_import" =>
        /\ \A k \in 1..Len(imp.attempted) :
               /\ imp.attempted[k] \in 1..imp.idx
               /\ imp.rows[imp.attempted[k]].convertible
               /\ \A j \in 1..Len(imp.attempted) :
                      j < k => imp.attempted[j] < imp.attempted[k]
        /\ \A i \in 1..imp.idx :
               imp.rows[i].convertible =>
                   \E k \in 1..Len(imp.attempted) : imp.attempted[k] = i
        /\ imp.inserted + Len(imp.errors) = imp.idx
        /\ imp.feedback # "none" => imp.idx = Len(imp.rows)
        /\ imp.inserted = Cardinality(Imported)
        /\ tx = NoTx
        /\ \A i \in Imported : <<"products", i>> \notin rolledBack

\* A two-row import is over whose first row failed in the database and
\* whose second row was committed.
C23_Witness ==
    /\ imp.feedback = "warning"
    /\ Len(imp.rows) = 2
    /\ imp.attempted = <<1, 2>>
    /\ imp.errors = <<1>>
    /\ imp.inserted = 1
    /\ Cardinality(Imported) = 1

(***************************************************************************)
(* Properties of a repeated setup_database run (SpecSetup).                *)
(***************************************************************************)
\* C21: whenever setup_database has completed and returned True, each of
\* users, products, orders and order_items carries its audit trigger, also
\* when one of the trigger statements failed.
C21_TriggersInstalledOnReturn ==
    su.returned = "True" => installed = Tables

\* C29: a run of setup_database on a database that holds the sample data
\* adds no row to users and no row to products, and appends no audit
\* record for users or products.
C29_SampleDataIdempotent ==
    su.returned = "True" =>
        /\ Cardinality(db.tab["users"]) = su.users
        /\ Cardinality(db.tab["products"]) = su.products
        /\ \A k \in (su.audit + 1)..Len(db.audit) :
               db.audit[k].table_name \notin {"users", "products"}

(***************************************************************************)
(* Properties of deploy_and_setup.py (SpecDeploy).                         *)
(***************************************************************************)
\* C24: when the loop over the statements of setup_database.sql is over,
\* every statement of the script was passed to cursor.execute exactly
\* once, whole and in script order, also a statement preceded by a comment
\* line and a statement whose body contains semicolons.
C24_EveryStatementOnceWhole ==
    dp.looped =>
        dp.executed = [k \in 1..Len(dp.script) |-> Body(k, dp.script[k])]

\* The steps of a run that went through, but for the app command.
FixedOrder == <<"get_oauth_token", "setup_database", "deploy_to_workspace", "apps get">>

\* C25: main takes its steps in the order token, database setup, upload,
\* app; without a token no later step is taken and main returns False; a
\* failed database setup stops neither the upload nor the app step; the
\* app step runs 'apps deploy' when 'apps get' succeeded and 'apps create'
\* when it did not, and never both.
C25_FixedStepOrder ==
    /\ \A n \in 1..Len(dp.steps) : n <= 4 => dp.steps[n] = FixedOrder[n]
    /\ Len(dp.steps) \in {0, 1, 2, 3, 5}
    /\ Len(dp.steps) = 5 =>
           dp.steps[5] = (IF dp.get_rc = 0 THEN "apps deploy" ELSE "apps create")
    /\ dp.token \in {"", "None"} =>
           (dp.steps = <<"get_oauth_token">> /\ dp.returned = "False" /\ dp.pc = "done")
    /\ dp.returned = "False" => dp.token \in {"", "None"}
    /\ (dp.pc = "done" /\ dp.token = "token") =>
           (Len(dp.steps) = 5 /\ dp.returned = "True")
    /\ dp.setup = "False" => dp.pc \in {"upload", "app", "summary", "done"}

\* A run is over in which the database setup failed, 'apps get' failed and
\* the app was created.
C25_Witness ==
    /\ dp.pc = "done"
    /\ dp.setup = "False"
    /\ dp.returned = "True"
    /\ dp.get_rc = 1
    /\ dp.steps = Append(FixedOrder, "apps create")

(***************************************************************************)
(* Properties of create_project and create_dev_branch (SpecProject).       *)
(***************************************************************************)
\* The resources the service holds under a name.
Held(name) ==
    IF Len(name) = 2 THEN pj.projects[name[2]]
    ELSE pj.branches[<<name[2], name[4]>>]

====
